---------------------------- MODULE Spec2Model ----------------------------
(***************************************************************************)
(* Model of the dataset pipeline in model_training/:                       *)
(*   generate_yolo_data.py  box conversions, stratified split, labeler     *)
(*   draw_yolo_boxes.py     yolo_to_pixels                                 *)
(*   paligemma_detector.py  get_detections_from_image and the model load   *)
(*                                                                         *)
(* Six machines share the module, each with its own specification: the     *)
(* conversion machine (SpecConv, and SpecConvAny for inputs of every kind) *)
(* takes one box through the conversions, the split machine (SpecSplit,    *)
(* and SpecCounts for the counts of larger sizes) splits one source        *)
(* group, the batch machine (SpecBatch, SpecBatchFair) is one call of      *)
(* process_image_batch, the enforcement machine (SpecEnforce) is the label *)
(* enforcement loop of one pass of that call, detection by detection, and  *)
(* the main machine (SpecMain, and SpecRerun for repeated runs) is one run *)
(* of main, which ends in the call,                                        *)
(* and the detector machine (SpecDetector) is a sequence of calls of       *)
(* _initialize_model_and_processor on the detector module's globals.       *)
(* A machine that a specification does not run stays in its Off state.     *)
(*                                                                         *)
(* Numbers.  A Python float that the code formats with "%.6f" is kept as   *)
(* an integer count of millionths (0.527778 is 527778).  A quotient the    *)
(* code computes in floating point is kept as an exact fraction <<n, d>>   *)
(* until the code rounds or truncates it.  For image sides up to 17 pixels *)
(* the exact value and the IEEE double agree on every rounding and every   *)
(* truncation of these functions (compared exhaustively with CPython);     *)
(* from 18 pixels on a product such as 0.58 * 25 = 14.499999999999998      *)
(* truncates one lower than the exact value, so MaxImgW and MaxImgH stay   *)
(* below that.                                                             *)
(***************************************************************************)
EXTENDS Integers, Sequences, FiniteSets, TLC

\* ------------------------------------------------------------ bounds
MaxImgW == 12        \* widest image of the conversion machine
MaxImgH == 4         \* tallest image of the conversion machine
MaxGroup == 7        \* largest source group of the split machine, shuffled into every order
MaxCount == 60       \* largest group size whose counts are computed (SpecCounts)
MaxAssign == 2       \* longest list handed to process_image_batch
MaxDets == 1         \* most detections the detector returns for one image

\* ------------------------------------------------- program constants
CLASSES == <<"flip-flops", "helmet", "glove", "boots">>
TRAIN_RATIO == 70    \* 0.70, in hundredths
VAL_RATIO == 15      \* 0.15, in hundredths
Million == 1000000   \* the 6 decimals of f"{x:.6f}"
PaliScale == 1000    \* the VLM's coordinate range 0..1000

None == <<>>         \* Python's None, for a box or a string that is absent

Max(a, b) == IF a >= b THEN a ELSE b
Min(a, b) == IF a <= b THEN a ELSE b

\* CLASS_MAP = {name: i for i, name in enumerate(CLASSES)}; Python indexes from 0
ClassNames == {CLASSES[i] : i \in 1..Len(CLASSES)}
CLASS_MAP == [name \in ClassNames |-> (CHOOSE i \in 1..Len(CLASSES) : CLASSES[i] = name) - 1]

\* ------------------------------------------------------- arithmetic
\* math.ceil(a / b) for a >= 0, b > 0
Ceil(a, b) == (a + b - 1) \div b

\* round(a / b) for a >= 0, b > 0: Python 3 rounds a tie to the even integer;
\* "%.6f" rounds the same way
RoundHalfEven(a, b) ==
    LET q == a \div b
        r == a % b
    IN  IF 2 * r > b \/ (2 * r = b /\ q % 2 = 1) THEN q + 1 ELSE q

\* int(a / b) for b > 0: Python truncates toward zero
Trunc(a, b) == IF a >= 0 THEN a \div b ELSE -((-a) \div b)

\* max(0.0, min(x, 1.0)) on a fraction <<n, d>>, d > 0
Clamp01(f) == IF f[1] < 0 THEN <<0, f[2]>>
              ELSE IF f[1] > f[2] THEN <<f[2], f[2]>>
              ELSE f

\* f"{x:.6f}" of a fraction in [0, 1]: its millionths
Fmt6(f) == RoundHalfEven(f[1] * Million, f[2])

\* ------------------------------------------------- box conversions
\* generate_yolo_data.yolo_coord_conversion: pixel corners -> the four
\* numbers of a label line, None when the box or the image is degenerate
yolo_coord_conversion(box_coords, img_width, img_height) ==
    IF img_width <= 0 \/ img_height <= 0 THEN None
    ELSE LET xmin == Max(0, box_coords[1])
             ymin == Max(0, box_coords[2])
             xmax == Min(img_width, box_coords[3])
             ymax == Min(img_height, box_coords[4])
         IN  IF xmin >= xmax \/ ymin >= ymax THEN None
             ELSE LET x_center == Clamp01(<<xmin + xmax, 2 * img_width>>)
                      y_center == Clamp01(<<ymin + ymax, 2 * img_height>>)
                      width == Clamp01(<<xmax - xmin, img_width>>)
                      height == Clamp01(<<ymax - ymin, img_height>>)
                  IN  IF width[1] <= 0 \/ height[1] <= 0 THEN None
                      ELSE <<Fmt6(x_center), Fmt6(y_center), Fmt6(width), Fmt6(height)>>

\* a variant that does not clamp the VLM coordinates to 0..1000
paligemma_to_pixels_Unclamped(box_norm, img_width, img_height) ==
    IF img_width <= 0 \/ img_height <= 0 THEN None
    ELSE LET xmin == RoundHalfEven(box_norm[2] * img_width, PaliScale)
             ymin == RoundHalfEven(box_norm[1] * img_height, PaliScale)
             xmax == RoundHalfEven(box_norm[4] * img_width, PaliScale)
             ymax == RoundHalfEven(box_norm[3] * img_height, PaliScale)
         IN  IF xmin >= xmax \/ ymin >= ymax THEN None
             ELSE <<xmin, ymin, xmax, ymax>>

\* a variant whose far corner is the index of the last pixel inside the box
paligemma_to_pixels_LastPixel(box_norm, img_width, img_height) ==
    IF img_width <= 0 \/ img_height <= 0 THEN None
    ELSE LET ymin_norm == Max(0, Min(box_norm[1], PaliScale))
             xmin_norm == Max(0, Min(box_norm[2], PaliScale))
             ymax_norm == Max(0, Min(box_norm[3], PaliScale))
             xmax_norm == Max(0, Min(box_norm[4], PaliScale))
             xmin == RoundHalfEven(xmin_norm * img_width, PaliScale)
             ymin == RoundHalfEven(ymin_norm * img_height, PaliScale)
             xmax == RoundHalfEven(xmax_norm * img_width, PaliScale) - 1
             ymax == RoundHalfEven(ymax_norm * img_height, PaliScale) - 1
         IN  IF xmin >= xmax \/ ymin >= ymax THEN None
             ELSE <<xmin, ymin, xmax, ymax>>

\* generate_yolo_data.paligemma_to_pixels: VLM box (ymin, xmin, ymax, xmax)
\* in 0..1000 -> pixel corners (xmin, ymin, xmax, ymax), None when degenerate
paligemma_to_pixels(box_norm, img_width, img_height) ==
    IF img_width <= 0 \/ img_height <= 0 THEN None
    ELSE LET ymin_norm == Max(0, Min(box_norm[1], PaliScale))
             xmin_norm == Max(0, Min(box_norm[2], PaliScale))
             ymax_norm == Max(0, Min(box_norm[3], PaliScale))
             xmax_norm == Max(0, Min(box_norm[4], PaliScale))
             xmin == RoundHalfEven(xmin_norm * img_width, PaliScale)
             ymin == RoundHalfEven(ymin_norm * img_height, PaliScale)
             xmax == RoundHalfEven(xmax_norm * img_width, PaliScale)
             ymax == RoundHalfEven(ymax_norm * img_height, PaliScale)
         IN  IF xmin >= xmax \/ ymin >= ymax THEN None
             ELSE <<xmin, ymin, xmax, ymax>>

\* draw_yolo_boxes.yolo_to_pixels: (x_center, y_center, width, height), here in
\* millionths as read back from a label line, -> pixel corners or None.
\* int(center - box / 2) is the truncation of (2*center - box) * side / 2.
yolo_to_pixels_FullExtent(yolo_coords, img_width, img_height) ==
    LET x_center == yolo_coords[1]
        y_center == yolo_coords[2]
        width == yolo_coords[3]
        height == yolo_coords[4]
        xmin == Max(0, Trunc((x_center - width) * img_width, Million))
        ymin == Max(0, Trunc((y_center - height) * img_height, Million))
        xmax == Min(img_width, Trunc((x_center + width) * img_width, Million))
        ymax == Min(img_height, Trunc((y_center + height) * img_height, Million))
    IN  IF xmin >= xmax \/ ymin >= ymax THEN None
        ELSE <<xmin, ymin, xmax, ymax>>

yolo_to_pixels(yolo_coords, img_width, img_height) ==
    LET x_center == yolo_coords[1]
        y_center == yolo_coords[2]
        width == yolo_coords[3]
        height == yolo_coords[4]
        xmin == Max(0, Trunc((2 * x_center - width) * img_width, 2 * Million))
        ymin == Max(0, Trunc((2 * y_center - height) * img_height, 2 * Million))
        xmax == Min(img_width, Trunc((2 * x_center + width) * img_width, 2 * Million))
        ymax == Min(img_height, Trunc((2 * y_center + height) * img_height, 2 * Million))
    IN  IF xmin >= xmax \/ ymin >= ymax THEN None
        ELSE <<xmin, ymin, xmax, ymax>>

\* ------------------------------------------------- stratified split
\* main, "Calculate splits": the counts <<n_train, n_val, n_test>> of a group
SplitCounts_NoTestClamp(n_images) ==
    LET n_train == Ceil(n_images * TRAIN_RATIO, 100)
        n_val == Ceil(n_images * VAL_RATIO, 100)
    IN  IF n_images > 2 /\ n_train >= n_images - 1 THEN <<n_images - 2, 1, 1>>
        ELSE IF n_images > 1 /\ n_train = n_images THEN <<n_images - 1, 1, 0>>
        ELSE <<n_train, n_val, n_images - n_train - n_val>>

SplitCounts_StrictEdge(n_images) ==
    LET n_train == Ceil(n_images * TRAIN_RATIO, 100)
        n_val == Ceil(n_images * VAL_RATIO, 100)
        n_test == n_images - n_train - n_val
    IN  IF n_images > 2 /\ n_train > n_images - 1 THEN <<n_images - 2, 1, 1>>
        ELSE IF n_images > 1 /\ n_train = n_images THEN <<n_images - 1, 1, 0>>
        ELSE IF n_test < 0 THEN <<n_train, n_images - n_train, 0>>
        ELSE <<n_train, n_val, n_test>>

SplitCounts(n_images) ==
    LET n_train == Ceil(n_images * TRAIN_RATIO, 100)
        n_val == Ceil(n_images * VAL_RATIO, 100)
        n_test == n_images - n_train - n_val
    IN  IF n_images > 2 /\ n_train >= n_images - 1 THEN <<n_images - 2, 1, 1>>
        ELSE IF n_images > 1 /\ n_train = n_images THEN <<n_images - 1, 1, 0>>
        ELSE IF n_test < 0 THEN <<n_train, n_images - n_train, 0>>
        ELSE <<n_train, n_val, n_test>>

\* random.shuffle(image_list): every order of the list
Shuffles(s) == {[i \in 1..Len(s) |-> s[p[i]]] : p \in Permutations(1..Len(s))}

\* ------------------------------------------------------ the labeler
\* The source images of the batch machine: directory (the group's name),
\* file stem and name, pixel size.  All share the stem "a" and two the name
\* "a.jpg", so that targets collide within a split and not across splits.
\* The two images of the group "duo" have stems of their own; they are the
\* group of the runs that main repeats (SpecRerun).
Images == {"helmet/a.jpg", "site/a.jpg", "site/a.png"}
RerunImages == {"duo/x.jpg", "duo/y.jpg"}
ImageTable ==
    [p \in Images \cup RerunImages |->
        CASE p = "helmet/a.jpg" -> [dir |-> "helmet", stem |-> "a", name |-> "a.jpg", w |-> 10, h |-> 10]
          [] p = "site/a.jpg" -> [dir |-> "site", stem |-> "a", name |-> "a.jpg", w |-> 10, h |-> 8]
          [] p = "site/a.png" -> [dir |-> "site", stem |-> "a", name |-> "a.png", w |-> 8, h |-> 10]
          [] p = "duo/x.jpg" -> [dir |-> "duo", stem |-> "x", name |-> "x.jpg", w |-> 10, h |-> 10]
          [] p = "duo/y.jpg" -> [dir |-> "duo", stem |-> "y", name |-> "y.jpg", w |-> 10, h |-> 10]]
Splits == {"train", "val", "test"}
BatchSplits == {"train", "val"}

\* target_lbl_path = labels/<split>/<stem>.txt, target_img_path = images/<split>/<name>
target_lbl_path_WithSuffix(split, source_img_path) == <<split, ImageTable[source_img_path].name>>
target_lbl_path(split, source_img_path) == <<split, ImageTable[source_img_path].stem>>
target_img_path(split, source_img_path) == <<split, ImageTable[source_img_path].name>>

\* What the detector's collaborators do for one call: the model fails to
\* load, the image cannot be read, the processor or generate() raises, or the
\* output is decoded and holds these detections (label, VLM box).
DetLabels == {"helmet", "glove", "person"}
DetBoxes == {<<100, 100, 600, 600>>, <<500, 200, 500, 900>>}
Detections == [label : DetLabels, box : DetBoxes]
SeqsUpTo(S, n) == UNION {[1..k -> S] : k \in 0..n}
FailureKinds == {"init_failed", "unreadable", "inputs_failed", "generate_failed"}
Responses == [kind : FailureKinds, dets : {<<>>}]
                 \cup [kind : {"decoded"}, dets : SeqsUpTo(Detections, MaxDets)]

\* paligemma_detector.get_detections_from_image: every early return of lines
\* 99-162 is "return []"; otherwise the parsed detections with the image size
\* added.  is_none tells a returned None from a returned list.
get_detections_from_image_NoneOnError(image_path, classes_to_detect, resp) ==
    IF resp.kind # "decoded" THEN [is_none |-> TRUE, list |-> <<>>]
    ELSE [is_none |-> FALSE,
          list |-> [k \in DOMAIN resp.dets |->
                      [label |-> resp.dets[k].label, box |-> resp.dets[k].box,
                       img_width |-> ImageTable[image_path].w,
                       img_height |-> ImageTable[image_path].h]]]

get_detections_from_image(image_path, classes_to_detect, resp) ==
    IF resp.kind # "decoded" \/ classes_to_detect = <<>>
    THEN [is_none |-> FALSE, list |-> <<>>]
    ELSE [is_none |-> FALSE,
          list |-> [k \in DOMAIN resp.dets |->
                      [label |-> resp.dets[k].label, box |-> resp.dets[k].box,
                       img_width |-> ImageTable[image_path].w,
                       img_height |-> ImageTable[image_path].h]]]

\* "Determine classes to detect based on source dir": <<classes_to_request,
\* expected_label_from_dir, allowed_labels_in_dir>>.  NoLabel is a label that
\* "if label:" takes as false: None (dict.get's miss) or the empty string.
NoLabel == ""
ExpectedLabel(single_class_dirs, source_dir_name) ==
    IF source_dir_name \in DOMAIN single_class_dirs
    THEN single_class_dirs[source_dir_name] ELSE NoLabel
AllowedLabels(required_pairs, single_class_dirs, source_dir_name) ==
    IF ExpectedLabel(single_class_dirs, source_dir_name) = NoLabel
       /\ source_dir_name \in DOMAIN required_pairs
    THEN {required_pairs[source_dir_name][1], required_pairs[source_dir_name][2]}
    ELSE {}
ClassesToRequest(required_pairs, single_class_dirs, source_dir_name) ==
    IF ExpectedLabel(single_class_dirs, source_dir_name) # NoLabel
    THEN <<ExpectedLabel(single_class_dirs, source_dir_name)>>
    ELSE IF source_dir_name \in DOMAIN required_pairs
    THEN required_pairs[source_dir_name]
    ELSE CLASSES

\* a variant that forces the directory's label only onto catalog labels
LabelToUse_CatalogOnly(pali_label, expected_label_from_dir, allowed_labels_in_dir) ==
    IF expected_label_from_dir # NoLabel
    THEN (IF pali_label \in DOMAIN CLASS_MAP THEN expected_label_from_dir ELSE NoLabel)
    ELSE IF allowed_labels_in_dir # {}
    THEN (IF pali_label \in allowed_labels_in_dir THEN pali_label ELSE NoLabel)
    ELSE (IF pali_label \in DOMAIN CLASS_MAP THEN pali_label ELSE NoLabel)

\* a variant that keeps every catalog label in a pair's directory
LabelToUse_PairAnyCatalog(pali_label, expected_label_from_dir, allowed_labels_in_dir) ==
    IF expected_label_from_dir # NoLabel THEN expected_label_from_dir
    ELSE (IF pali_label \in DOMAIN CLASS_MAP THEN pali_label ELSE NoLabel)

\* "Label Enforcement Logic", one detection: the label to use, or NoLabel
LabelToUse(pali_label, expected_label_from_dir, allowed_labels_in_dir) ==
    IF expected_label_from_dir # NoLabel THEN expected_label_from_dir
    ELSE IF allowed_labels_in_dir # {}
    THEN (IF pali_label \in allowed_labels_in_dir THEN pali_label ELSE NoLabel)
    ELSE (IF pali_label \in DOMAIN CLASS_MAP THEN pali_label ELSE NoLabel)

\* one detection: the label line <<class_id, x_center, y_center, width, height>>
\* it contributes, or None (no label, a label outside CLASS_MAP, a box that
\* either conversion rejects)
LabelLine(det, expected_label_from_dir, allowed_labels_in_dir) ==
    LET label_to_use == LabelToUse(det.label, expected_label_from_dir, allowed_labels_in_dir)
    IN  IF label_to_use = NoLabel \/ label_to_use \notin DOMAIN CLASS_MAP THEN None
        ELSE LET pixel_box == paligemma_to_pixels(det.box, det.img_width, det.img_height)
             IN  IF pixel_box = None THEN None
                 ELSE LET yolo_coords_str ==
                              yolo_coord_conversion(pixel_box, det.img_width, det.img_height)
                      IN  IF yolo_coords_str = None THEN None
                          ELSE <<CLASS_MAP[label_to_use]>> \o yolo_coords_str

\* the loop over the detections: yolo_lines, in the detections' order
RECURSIVE YoloLines(_, _, _)
YoloLines(detections, expected_label_from_dir, allowed_labels_in_dir) ==
    IF detections = <<>> THEN <<>>
    ELSE LET line == LabelLine(Head(detections), expected_label_from_dir, allowed_labels_in_dir)
             rest == YoloLines(Tail(detections), expected_label_from_dir, allowed_labels_in_dir)
         IN  IF line = None THEN rest ELSE <<line>> \o rest

\* detected_class_ids_final
DetectedClassIds(yolo_lines) == {yolo_lines[k][1] : k \in DOMAIN yolo_lines}

\* "Warnings": whether the image is missing a class its group requires
RequiredMissing_Either(required_pairs, source_dir_name, yolo_lines) ==
    /\ source_dir_name \in DOMAIN required_pairs
    /\ DetectedClassIds(yolo_lines) = {}

\* a variant that leaves the required-missing warning to the no-target warning
\* when the image has no line at all
RequiredMissing_OnlyWithLines(required_pairs, source_dir_name, yolo_lines) ==
    /\ source_dir_name \in DOMAIN required_pairs
    /\ yolo_lines # <<>>
    /\ \E k \in 1..2 :
          CLASS_MAP[required_pairs[source_dir_name][k]] \notin DetectedClassIds(yolo_lines)

RequiredMissing(required_pairs, source_dir_name, yolo_lines) ==
    /\ source_dir_name \in DOMAIN required_pairs
    /\ \E k \in 1..2 :
          CLASS_MAP[required_pairs[source_dir_name][k]] \notin DetectedClassIds(yolo_lines)

\* the counters of process_image_batch, as the dict it returns
ZeroTally == [processed |-> 0, copied |-> 0, skipped |-> 0, errors |-> 0,
              no_target_warnings |-> 0, required_missing_warnings |-> 0]
Bump(t, field) == [t EXCEPT ![field] = @ + 1]

\* A file of the output tree: the source image it was made from ("old": a
\* file that was there before the batch) and whether its write or copy
\* completed.  The lines of the label file of the current pass are
\* yolo_lines; the code never reads a label file back, and the lines of the
\* earlier ones are not kept.
PutFile(files, key, value) == [k \in DOMAIN files \cup {key} |-> IF k = key THEN value ELSE files[k]]
DelFile(files, key) == [k \in DOMAIN files \ {key} |-> files[k]]

VARIABLES
    \* conversion machine: one box taken through the conversions
    c_pc, img_width, img_height, box_norm, box_coords, yolo_coords_str, pixel_back,
    \* split machine: main's stratified split of one source group
    s_pc, image_list, n_images, n_train, n_val, n_test, loop_i, current_idx,
    all_splits_data,
    \* batch machine: one call of process_image_batch
    b_pc,                    \* "loop": at the top of the for loop; "write": before the write block
    image_paths_with_split,  \* the argument: <<split, source_img_path, source_dir_name>>, ...
    required_pairs,          \* the argument: source_dir_name -> <<class1, class2>>
    single_class_dirs,       \* the argument: source_dir_name -> its one label
    idx,                     \* assignments the loop has taken so far
    tally,                   \* the six counters
    detections, yolo_lines,  \* the loop body's locals, kept until the next pass rebinds them
    out_labels, out_images,  \* the output tree: labels/ and images/
    src_exists,              \* the source images that exist
    io,                      \* what the call has done outside itself so far
    before,                  \* the counters and the tree at the top of the current pass
    last,                    \* how the last pass went
    tree_at_call,            \* the files of the output tree when the call began
    \* enforcement machine: the "for det in detections" loop of one pass
    det_idx,                 \* detections the loop has taken so far
    outcomes,                \* how each of them went, in order
    \* main machine: one run of main
    m_pc,                    \* the step main is at
    input_dirs,              \* the argument: the input directory paths
    required_pairs_args,     \* the argument: <<dir_name, class1, class2>>, ...
    model_loads,             \* whether _initialize_model_and_processor succeeds
    runs,                    \* runs of main completed before this one
    grouped_images,          \* the dict, in insertion order: <<source_dir_name, image list>>, ...
    input_dir_names,
    group_idx,               \* groups the split loop has taken so far
    exit_code,               \* "exit1": sys.exit(1); "return": main returned
    data_yaml,               \* whether data.yaml has been written
    \* detector machine: the globals of paligemma_detector.py and the calls so far
    i_pc,                    \* "imported" once the module's globals exist
    hardware,                \* what the torch probes of lines 28-36 find
    n_calls,                 \* calls of _initialize_model_and_processor so far
    last_call,               \* what the last of them did
    _model, _processor, _device, _dtype

convVars == <<c_pc, img_width, img_height, box_norm, box_coords, yolo_coords_str, pixel_back>>
splitVars == <<s_pc, image_list, n_images, n_train, n_val, n_test, loop_i,
               current_idx, all_splits_data>>
batchVars == <<b_pc, image_paths_with_split, required_pairs, single_class_dirs, idx,
               tally, detections, yolo_lines, out_labels, out_images, src_exists,
               io, before, last, tree_at_call>>
mainVars == <<m_pc, input_dirs, required_pairs_args, model_loads, runs, grouped_images,
              input_dir_names, group_idx, exit_code, data_yaml>>
enforceVars == <<det_idx, outcomes>>
detectorVars == <<i_pc, hardware, n_calls, last_call, _model, _processor, _device, _dtype>>
vars == <<convVars, splitVars, batchVars, mainVars, enforceVars, detectorVars>>

\* ------------------------------------------- the conversion machine
ConvOff ==
    /\ c_pc = "off" /\ img_width = 0 /\ img_height = 0 /\ box_norm = None
    /\ box_coords = None /\ yolo_coords_str = None /\ pixel_back = None

\* a pixel box anywhere from one pixel outside the image to one pixel outside
ConvInit ==
    /\ c_pc = "box"
    /\ img_width \in 1..MaxImgW
    /\ img_height \in 1..MaxImgH
    /\ \E xmin, xmax \in -1..(img_width + 1) : \E ymin, ymax \in -1..(img_height + 1) :
          box_coords = <<xmin, ymin, xmax, ymax>>
    /\ box_norm = None
    /\ yolo_coords_str = None
    /\ pixel_back = None

\* the labeler's side: the box becomes the numbers of a label line
ConvertToYolo ==
    /\ c_pc = "box"
    /\ yolo_coords_str' = yolo_coord_conversion(box_coords, img_width, img_height)
    /\ c_pc' = IF yolo_coords_str' = None THEN "rejected" ELSE "line"
    /\ UNCHANGED <<img_width, img_height, box_norm, box_coords, pixel_back>>
    /\ UNCHANGED <<splitVars, batchVars, mainVars, enforceVars, detectorVars>>

\* the drawing side: the label line is read back for the same image
ConvertBack ==
    /\ c_pc = "line"
    /\ pixel_back' = yolo_to_pixels(yolo_coords_str, img_width, img_height)
    /\ c_pc' = "back"
    /\ UNCHANGED <<img_width, img_height, box_norm, box_coords, yolo_coords_str>>
    /\ UNCHANGED <<splitVars, batchVars, mainVars, enforceVars, detectorVars>>

ConvNext == ConvertToYolo \/ ConvertBack

\* The conversions on inputs of every kind.  A run starts from a VLM box
\* ("vlm": paligemma_to_pixels, then the two conversions above, the labeler's
\* composite path), from a pixel box ("box") or from the numbers of a label
\* line ("line"); image sides start at -1, and a pixel box can sit at the left
\* edge of an image WideSide pixels wide.
MaxAnySide == 3      \* largest ordinary image side of these runs
WideSide == 2000001  \* a width of which one pixel is less than half a millionth
NormValues == {-50, 0, 1, 499, 500, 1000, 1200}
YoloValues == {-250000, 0, 250000, 500000, 1000000, 1500000}
PixelCoords(side) == -1..(Min(Max(side, 0), MaxAnySide) + 1)

ConvInitAny ==
    /\ img_height \in -1..MaxAnySide
    /\ pixel_back = None
    /\ \/ /\ c_pc = "vlm"
          /\ img_width \in -1..MaxAnySide
          /\ box_norm \in NormValues \X NormValues \X NormValues \X NormValues
          /\ box_coords = None
          /\ yolo_coords_str = None
       \/ /\ c_pc = "box"
          /\ img_width \in (-1..MaxAnySide) \cup {WideSide}
          /\ box_norm = None
          /\ \E xmin, xmax \in PixelCoords(img_width) : \E ymin, ymax \in PixelCoords(img_height) :
                box_coords = <<xmin, ymin, xmax, ymax>>
          /\ yolo_coords_str = None
       \/ /\ c_pc = "line"
          /\ img_width \in -1..MaxAnySide
          /\ box_norm = None
          /\ box_coords = None
          /\ yolo_coords_str \in YoloValues \X YoloValues \X YoloValues \X YoloValues

\* line 131: the VLM box becomes a pixel box, or the detection is dropped
ConvertFromVlm ==
    /\ c_pc = "vlm"
    /\ box_coords' = paligemma_to_pixels(box_norm, img_width, img_height)
    /\ c_pc' = IF box_coords' = None THEN "rejected_vlm" ELSE "box"
    /\ UNCHANGED <<img_width, img_height, box_norm, yolo_coords_str, pixel_back>>
    /\ UNCHANGED <<splitVars, batchVars, mainVars, enforceVars, detectorVars>>

ConvAnyNext == ConvertFromVlm \/ ConvertToYolo \/ ConvertBack

\* ------------------------------------------------ the split machine
SplitOff ==
    /\ s_pc = "off" /\ image_list = <<>> /\ n_images = 0
    /\ n_train = 0 /\ n_val = 0 /\ n_test = 0 /\ loop_i = 0 /\ current_idx = 0
    /\ all_splits_data = <<>>

\* a non-empty group (main skips an empty one); its images are numbered
SplitInit ==
    /\ s_pc = "shuffle"
    /\ \E n \in 1..MaxGroup : image_list = [i \in 1..n |-> i]
    /\ n_images = 0 /\ n_train = 0 /\ n_val = 0 /\ n_test = 0
    /\ loop_i = 0 /\ current_idx = 0
    /\ all_splits_data = <<>>

\* random.shuffle(image_list); n_images = len(image_list)
Shuffle ==
    /\ s_pc = "shuffle"
    /\ image_list' \in Shuffles(image_list)
    /\ n_images' = Len(image_list)
    /\ s_pc' = "calc"
    /\ UNCHANGED <<n_train, n_val, n_test, loop_i, current_idx, all_splits_data>>
    /\ UNCHANGED <<convVars, batchVars, mainVars, enforceVars, detectorVars>>

\* n_train, n_val, n_test; current_idx = 0
CalculateSplits ==
    /\ s_pc = "calc"
    /\ n_train' = SplitCounts(n_images)[1]
    /\ n_val' = SplitCounts(n_images)[2]
    /\ n_test' = SplitCounts(n_images)[3]
    /\ current_idx' = 0
    /\ loop_i' = 0
    /\ s_pc' = "train"
    /\ UNCHANGED <<image_list, n_images, all_splits_data>>
    /\ UNCHANGED <<convVars, batchVars, mainVars, enforceVars, detectorVars>>

\* one pass of "for i in range(count)": the bounds check, the append; and the
\* move to the next loop once range(count) is used up
AssignLoop(here, split, count, next) ==
    /\ s_pc = here
    /\ IF loop_i < count
       THEN /\ IF current_idx < n_images
               THEN /\ all_splits_data' =
                          Append(all_splits_data, <<split, image_list[current_idx + 1]>>)
                    /\ current_idx' = current_idx + 1
               ELSE UNCHANGED <<all_splits_data, current_idx>>
            /\ loop_i' = loop_i + 1
            /\ s_pc' = here
       ELSE /\ loop_i' = 0
            /\ s_pc' = next
            /\ UNCHANGED <<all_splits_data, current_idx>>
    /\ UNCHANGED <<image_list, n_images, n_train, n_val, n_test>>
    /\ UNCHANGED <<convVars, batchVars, mainVars, enforceVars, detectorVars>>

AssignTrain == AssignLoop("train", "train", n_train, "val")
AssignVal == AssignLoop("val", "val", n_val, "test")
AssignTest == AssignLoop("test", "test", n_test, "done")

SplitNext == Shuffle \/ CalculateSplits \/ AssignTrain \/ AssignVal \/ AssignTest

\* The counts alone.  Lines 250-259 compute n_train, n_val and n_test from
\* n_images, the length of the group, and from nothing else; this machine
\* applies them to every n in 1..MaxCount and keeps no list.
CountsInit ==
    /\ s_pc = "count_of" /\ image_list = <<>>
    /\ n_images \in 1..MaxCount
    /\ n_train = 0 /\ n_val = 0 /\ n_test = 0
    /\ loop_i = 0 /\ current_idx = 0
    /\ all_splits_data = <<>>

\* lines 250-259 for the given n_images
ApplySplitCounts ==
    /\ s_pc = "count_of"
    /\ n_train' = SplitCounts(n_images)[1]
    /\ n_val' = SplitCounts(n_images)[2]
    /\ n_test' = SplitCounts(n_images)[3]
    /\ s_pc' = "counted"
    /\ UNCHANGED <<image_list, n_images, loop_i, current_idx, all_splits_data>>
    /\ UNCHANGED <<convVars, batchVars, mainVars, enforceVars, detectorVars>>

CountsNext == ApplySplitCounts

\* ------------------------------------------------ the batch machine
BatchOff ==
    /\ b_pc = "off" /\ image_paths_with_split = <<>>
    /\ required_pairs = <<>> /\ single_class_dirs = <<>>
    /\ idx = 0 /\ tally = ZeroTally /\ detections = <<>> /\ yolo_lines = <<>>
    /\ out_labels = <<>> /\ out_images = <<>> /\ src_exists = {}
    /\ io = <<>> /\ before = <<>> /\ last = <<>> /\ tree_at_call = <<>>

\* The arguments main can build.  required_pairs holds catalog classes only
\* (main exits otherwise); a directory named after a class is single-class
\* unless a pair is declared for it.
PairConfigs ==
    { <<>>,
      [d \in {"site"} |-> <<"helmet", "glove">>],
      [d \in {"site"} |-> <<"glove", "glove">>] }
SingleClassDirsFor(pairs, dirs) ==
    [d \in {x \in dirs : x \in DOMAIN CLASS_MAP /\ x \notin DOMAIN pairs} |-> d]
\* lists of up to MaxAssign assignments, no source image twice
AssignmentLists ==
    {l \in SeqsUpTo(BatchSplits \X Images, MaxAssign) :
        \A i, j \in DOMAIN l : i # j => l[i][2] # l[j][2]}
WithDir(l) == [k \in DOMAIN l |-> <<l[k][1], l[k][2], ImageTable[l[k][2]].dir>>]
OldFile == [src |-> "old", whole |-> TRUE]
NoIo == [detector_calls |-> 0, label_writes |-> 0, image_copies |-> 0, unlinks |-> 0]
\* how a pass went; messages are the kinds of line it wrote to the log, each
\* of which names the image
NoPass == [path |-> "none", kind |-> "none", lbl_unlink_failed |-> FALSE,
           img_unlink_failed |-> FALSE, messages |-> {}]
Snapshot == [tally |-> tally, labels |-> DOMAIN out_labels, images |-> DOMAIN out_images]

\* a call of process_image_batch: any list, over an output tree that holds
\* any of the list's target files already, with any of the sources gone
BatchInit ==
    /\ b_pc = "loop"
    /\ \E l \in AssignmentLists : image_paths_with_split = WithDir(l)
    /\ required_pairs \in PairConfigs
    /\ single_class_dirs = SingleClassDirsFor(required_pairs, {"helmet", "site"})
    /\ idx = 0 /\ tally = ZeroTally /\ detections = <<>> /\ yolo_lines = <<>>
    /\ \E ls \in SUBSET {target_lbl_path(image_paths_with_split[k][1], image_paths_with_split[k][2]) :
                            k \in DOMAIN image_paths_with_split} :
          out_labels = [key \in ls |-> OldFile]
    /\ \E is \in SUBSET {target_img_path(image_paths_with_split[k][1], image_paths_with_split[k][2]) :
                            k \in DOMAIN image_paths_with_split} :
          out_images = [key \in is |-> OldFile]
    /\ src_exists \in SUBSET {image_paths_with_split[k][2] : k \in DOMAIN image_paths_with_split}
    /\ io = NoIo
    /\ before = Snapshot
    /\ last = NoPass
    /\ tree_at_call = [labels |-> DOMAIN out_labels, images |-> DOMAIN out_images]

\* the assignment the loop is at
Current == image_paths_with_split[idx + 1]
CurLbl == target_lbl_path(Current[1], Current[2])
CurImg == target_img_path(Current[1], Current[2])
AtLoopTop_StopOnError ==
    b_pc = "loop" /\ idx < Len(image_paths_with_split) /\ tally.errors = 0

AtLoopTop == b_pc = "loop" /\ idx < Len(image_paths_with_split)

\* "Idempotency Check": target_lbl_path.exists()
AlreadyLabelled_Never(lbl_key) == FALSE
AlreadyLabelled(lbl_key) == lbl_key \in DOMAIN out_labels

\* shutil.copy2 of the source onto target_img_path, as it can end: "none" it
\* completes, "copy" it raises with the target untouched, "copy_partial" it
\* raises with the target created or truncated and not completed
CopyFaults == {"none", "copy", "copy_partial"}
AfterCopy(images, key, src, fault) ==
    CASE fault = "none" -> PutFile(images, key, [src |-> src, whole |-> TRUE])
      [] fault = "copy" -> images
      [] fault = "copy_partial" -> PutFile(images, key, [src |-> src, whole |-> FALSE])

\* a variant that counts a failed repair copy as an error
SkipIdempotent_CopyFailureIsError ==
    /\ AtLoopTop
    /\ AlreadyLabelled(CurLbl)
    /\ before' = Snapshot
    /\ IF CurImg \notin DOMAIN out_images /\ Current[2] \in src_exists
       THEN \E fault \in CopyFaults :
               /\ out_images' = AfterCopy(out_images, CurImg, Current[2], fault)
               /\ tally' = IF fault = "none" THEN Bump(Bump(tally, "skipped"), "copied")
                           ELSE Bump(Bump(tally, "skipped"), "errors")
               /\ io' = IF fault = "copy" THEN io ELSE [io EXCEPT !.image_copies = @ + 1]
               /\ last' = [NoPass EXCEPT
                             !.path = "skipped_idempotent", !.kind = fault,
                             !.messages = IF fault = "none" THEN {} ELSE {"copy_warning"}]
       ELSE /\ tally' = Bump(tally, "skipped")
            /\ last' = [NoPass EXCEPT !.path = "skipped_idempotent"]
            /\ UNCHANGED <<out_images, io>>
    /\ idx' = idx + 1
    /\ UNCHANGED <<detections, yolo_lines>>
    /\ UNCHANGED <<b_pc, image_paths_with_split, required_pairs, single_class_dirs,
                   out_labels, src_exists>>
    /\ UNCHANGED <<tree_at_call, convVars, splitVars, mainVars, enforceVars, detectorVars>>

\* a variant in which a repaired image is counted as copied and not as skipped
SkipIdempotent_RepairNotSkipped ==
    /\ AtLoopTop
    /\ AlreadyLabelled(CurLbl)
    /\ before' = Snapshot
    /\ IF CurImg \notin DOMAIN out_images /\ Current[2] \in src_exists
       THEN \E fault \in CopyFaults :
               /\ out_images' = AfterCopy(out_images, CurImg, Current[2], fault)
               /\ tally' = IF fault = "none" THEN Bump(tally, "copied")
                           ELSE Bump(tally, "skipped")
               /\ io' = IF fault = "copy" THEN io ELSE [io EXCEPT !.image_copies = @ + 1]
               /\ last' = [NoPass EXCEPT
                             !.path = "skipped_idempotent", !.kind = fault,
                             !.messages = IF fault = "none" THEN {} ELSE {"copy_warning"}]
       ELSE /\ tally' = Bump(tally, "skipped")
            /\ last' = [NoPass EXCEPT !.path = "skipped_idempotent"]
            /\ UNCHANGED <<out_images, io>>
    /\ idx' = idx + 1
    /\ UNCHANGED <<detections, yolo_lines>>
    /\ UNCHANGED <<b_pc, image_paths_with_split, required_pairs, single_class_dirs,
                   out_labels, src_exists>>
    /\ UNCHANGED <<tree_at_call, convVars, splitVars, mainVars, enforceVars, detectorVars>>

\* lines 74-82: the label exists; skip, copying the image if it is missing
SkipIdempotent ==
    /\ AtLoopTop
    /\ AlreadyLabelled(CurLbl)
    /\ before' = Snapshot
    /\ IF CurImg \notin DOMAIN out_images /\ Current[2] \in src_exists
       THEN \E fault \in CopyFaults :
               /\ out_images' = AfterCopy(out_images, CurImg, Current[2], fault)
               /\ tally' = IF fault = "none" THEN Bump(Bump(tally, "skipped"), "copied")
                           ELSE Bump(tally, "skipped")
               /\ io' = IF fault = "copy" THEN io ELSE [io EXCEPT !.image_copies = @ + 1]
               /\ last' = [NoPass EXCEPT
                             !.path = "skipped_idempotent", !.kind = fault,
                             !.messages = IF fault = "none" THEN {} ELSE {"copy_warning"}]
       ELSE /\ tally' = Bump(tally, "skipped")
            /\ last' = [NoPass EXCEPT !.path = "skipped_idempotent"]
            /\ UNCHANGED <<out_images, io>>
    /\ idx' = idx + 1
    /\ UNCHANGED <<detections, yolo_lines>>
    /\ UNCHANGED <<b_pc, image_paths_with_split, required_pairs, single_class_dirs,
                   out_labels, src_exists>>
    /\ UNCHANGED <<tree_at_call, convVars, splitVars, mainVars, enforceVars, detectorVars>>

\* a variant that counts the missing source as an error too
SkipMissingSource_CountsError ==
    /\ AtLoopTop
    /\ ~AlreadyLabelled(CurLbl)
    /\ Current[2] \notin src_exists
    /\ before' = Snapshot
    /\ tally' = Bump(Bump(tally, "skipped"), "errors")
    /\ last' = [NoPass EXCEPT !.path = "skipped_missing_source"]
    /\ idx' = idx + 1
    /\ UNCHANGED <<detections, yolo_lines>>
    /\ UNCHANGED <<b_pc, image_paths_with_split, required_pairs, single_class_dirs,
                   out_labels, out_images, src_exists, io>>
    /\ UNCHANGED <<tree_at_call, convVars, splitVars, mainVars, enforceVars, detectorVars>>

\* lines 83-85: no label and the source is gone
SkipMissingSource ==
    /\ AtLoopTop
    /\ ~AlreadyLabelled(CurLbl)
    /\ Current[2] \notin src_exists
    /\ before' = Snapshot
    /\ tally' = Bump(tally, "skipped")
    /\ last' = [NoPass EXCEPT !.path = "skipped_missing_source"]
    /\ idx' = idx + 1
    /\ UNCHANGED <<detections, yolo_lines>>
    /\ UNCHANGED <<b_pc, image_paths_with_split, required_pairs, single_class_dirs,
                   out_labels, out_images, src_exists, io>>
    /\ UNCHANGED <<tree_at_call, convVars, splitVars, mainVars, enforceVars, detectorVars>>

\* lines 87-161: the classes to request, the detector, the label enforcement
\* and the two warnings; "detections is None" ends the pass as an error
Detect ==
    /\ AtLoopTop
    /\ ~AlreadyLabelled(CurLbl)
    /\ Current[2] \in src_exists
    /\ before' = Snapshot
    /\ \E resp \in Responses :
         LET source_dir_name == Current[3]
             expected_label_from_dir == ExpectedLabel(single_class_dirs, source_dir_name)
             allowed_labels_in_dir ==
                 AllowedLabels(required_pairs, single_class_dirs, source_dir_name)
             classes_to_request ==
                 ClassesToRequest(required_pairs, single_class_dirs, source_dir_name)
             got == get_detections_from_image(Current[2], classes_to_request, resp)
             lines == YoloLines(got.list, expected_label_from_dir, allowed_labels_in_dir)
             t1 == IF lines = <<>> THEN Bump(tally, "no_target_warnings") ELSE tally
             t2 == IF RequiredMissing(required_pairs, source_dir_name, lines)
                   THEN Bump(t1, "required_missing_warnings") ELSE t1
             said == (IF resp.kind # "decoded" THEN {"detector_error"} ELSE {})
                     \cup (IF lines = <<>> THEN {"no_target_warning"} ELSE {})
                     \cup (IF RequiredMissing(required_pairs, source_dir_name, lines)
                           THEN {"required_missing_warning"} ELSE {})
         IN  /\ io' = [io EXCEPT !.detector_calls = @ + 1]
             /\ IF got.is_none
                THEN /\ tally' = Bump(tally, "errors")
                     /\ last' = [NoPass EXCEPT
                                   !.path = "detector_error", !.kind = resp.kind,
                                   !.messages = (IF resp.kind # "decoded"
                                                 THEN {"detector_error"} ELSE {})
                                                \cup {"detection_error"}]
                     /\ idx' = idx + 1
                     /\ detections' = None /\ UNCHANGED yolo_lines
                     /\ UNCHANGED b_pc
                ELSE /\ detections' = got.list
                     /\ yolo_lines' = lines
                     /\ tally' = t2
                     /\ last' = [NoPass EXCEPT !.path = "detected", !.kind = resp.kind,
                                                !.messages = said]
                     /\ b_pc' = "write"
                     /\ UNCHANGED idx
    /\ UNCHANGED <<image_paths_with_split, required_pairs, single_class_dirs,
                   out_labels, out_images, src_exists>>
    /\ UNCHANGED <<tree_at_call, convVars, splitVars, mainVars, enforceVars, detectorVars>>

\* How the write block can end: "none" both files are written; "open" the
\* label cannot be opened; "write" it is created and the write raises;
\* "copy", "copy_partial" the label is written and copy2 raises.
WriteFaults == {"none", "open", "write", "copy", "copy_partial"}

\* lines 171-176: unlink what exists; an OSError from unlink is passed over
Rollback_LabelOnly(labels_images, lbl_key, img_key, lbl_unlink_ok, img_unlink_ok) ==
    <<IF lbl_key \in DOMAIN labels_images[1] /\ lbl_unlink_ok
      THEN DelFile(labels_images[1], lbl_key) ELSE labels_images[1],
      labels_images[2]>>

Rollback(labels_images, lbl_key, img_key, lbl_unlink_ok, img_unlink_ok) ==
    <<IF lbl_key \in DOMAIN labels_images[1] /\ lbl_unlink_ok
      THEN DelFile(labels_images[1], lbl_key) ELSE labels_images[1],
      IF img_key \in DOMAIN labels_images[2] /\ img_unlink_ok
      THEN DelFile(labels_images[2], img_key) ELSE labels_images[2]>>

\* lines 163-177: write the label file, copy the image, count; on an exception
\* roll back and count an error
WriteAndCopy ==
    /\ b_pc = "write"
    /\ \E fault \in WriteFaults, lbl_unlink_ok, img_unlink_ok \in BOOLEAN :
         LET label == [src |-> Current[2], whole |-> fault # "write"]
             labels1 == IF fault = "open" THEN out_labels
                        ELSE PutFile(out_labels, CurLbl, label)
             images1 == IF fault \in {"open", "write"} THEN out_images
                        ELSE AfterCopy(out_images, CurImg, Current[2], fault)
             rolled == Rollback(<<labels1, images1>>, CurLbl, CurImg,
                                lbl_unlink_ok, img_unlink_ok)
         IN  \* an unlink that is not attempted has no outcome to choose
             /\ (fault = "none" \/ CurLbl \notin DOMAIN labels1) => lbl_unlink_ok
             /\ (fault = "none" \/ CurImg \notin DOMAIN images1) => img_unlink_ok
             /\ IF fault = "none"
                THEN /\ out_labels' = labels1
                     /\ out_images' = images1
                     /\ tally' = Bump(Bump(tally, "processed"), "copied")
                     /\ io' = [io EXCEPT !.label_writes = @ + 1, !.image_copies = @ + 1]
                     /\ last' = [last EXCEPT !.path = "written"]
                ELSE /\ out_labels' = rolled[1]
                     /\ out_images' = rolled[2]
                     /\ tally' = Bump(tally, "errors")
                     /\ io' = [io EXCEPT
                                 !.label_writes = IF fault = "open" THEN @ ELSE @ + 1,
                                 !.image_copies = IF fault = "copy_partial" THEN @ + 1 ELSE @,
                                 !.unlinks = @ + (IF CurLbl \in DOMAIN labels1 THEN 1 ELSE 0)
                                               + (IF CurImg \in DOMAIN images1 THEN 1 ELSE 0)]
                     /\ last' = [last EXCEPT !.path = "write_failed",
                                             !.lbl_unlink_failed = ~lbl_unlink_ok,
                                             !.img_unlink_failed = ~img_unlink_ok,
                                             !.messages = @ \cup {"write_error"}]
    /\ idx' = idx + 1
    /\ b_pc' = "loop"
    /\ UNCHANGED <<image_paths_with_split, required_pairs, single_class_dirs,
                   detections, yolo_lines, src_exists, before>>
    /\ UNCHANGED <<tree_at_call, convVars, splitVars, mainVars, enforceVars, detectorVars>>

\* lines 180-184: the list is used up; return the counters
ReturnTally ==
    /\ b_pc = "loop"
    /\ idx = Len(image_paths_with_split)
    /\ b_pc' = "returned"
    /\ UNCHANGED <<image_paths_with_split, required_pairs, single_class_dirs, idx,
                   tally, detections, yolo_lines, out_labels, out_images, src_exists,
                   io, before, last>>
    /\ UNCHANGED <<tree_at_call, convVars, splitVars, mainVars, enforceVars, detectorVars>>

BatchNext == SkipIdempotent \/ SkipMissingSource \/ Detect \/ WriteAndCopy \/ ReturnTally

\* ------------------------------------------ the enforcement machine
\* One pass of the batch loop that has reached line 110 (yolo_lines = []),
\* taken through "for det in detections" one detection at a time.
MaxEnfDets == 2      \* most detections of the pass the enforcement machine runs

\* VLM boxes <<ymin, xmin, ymax, xmax>> of the enforcement machine: inside the
\* image, empty (ymin = ymax), rounding to an empty pixel box, reaching out of
\* the 0..1000 range, corners swapped, the whole image, two pixels wide
EnfBoxes ==
    { <<100, 100, 600, 600>>, <<500, 200, 500, 900>>, <<0, 0, 1, 1>>,
      <<-50, -50, 1200, 1200>>, <<600, 600, 100, 100>>, <<0, 0, 1000, 1000>>,
      <<449, 449, 551, 551>> }
EnfDetections == [label : DetLabels, box : EnfBoxes]

\* lines 115-140, one detection: where its iteration ends
DetectionOutcome(det, expected_label_from_dir, allowed_labels_in_dir) ==
    LET label_to_use == LabelToUse(det.label, expected_label_from_dir, allowed_labels_in_dir)
        pixel_box == paligemma_to_pixels(det.box, det.img_width, det.img_height)
    IN  IF label_to_use = NoLabel THEN "no_label"
        ELSE IF label_to_use \notin DOMAIN CLASS_MAP THEN "key_error"
        ELSE IF pixel_box = None THEN "rejected_pixels"
        ELSE IF yolo_coord_conversion(pixel_box, det.img_width, det.img_height) = None
        THEN "rejected_yolo"
        ELSE "line"

EnforceOff == det_idx = 0 /\ outcomes = <<>>

\* the pass: one assignment whose source exists and has no label yet, an
\* empty output tree, and what the detector returned for it
EnforceInit ==
    /\ b_pc = "enforce"
    /\ \E split \in BatchSplits, img \in Images :
          image_paths_with_split = WithDir(<<<<split, img>>>>)
    /\ required_pairs \in PairConfigs
    /\ single_class_dirs = SingleClassDirsFor(required_pairs, {"helmet", "site"})
    /\ idx = 0 /\ tally = ZeroTally
    /\ \E dets \in SeqsUpTo(EnfDetections, MaxEnfDets) :
          detections =
              get_detections_from_image(
                  Current[2],
                  ClassesToRequest(required_pairs, single_class_dirs, Current[3]),
                  [kind |-> "decoded", dets |-> dets]).list
    /\ yolo_lines = <<>>
    /\ out_labels = <<>> /\ out_images = <<>>
    /\ src_exists = {Current[2]}
    /\ io = [NoIo EXCEPT !.detector_calls = 1]
    /\ before = Snapshot
    /\ last = NoPass
    /\ tree_at_call = [labels |-> {}, images |-> {}]
    /\ det_idx = 0 /\ outcomes = <<>>

\* a variant in which a rejected box discards the lines gathered so far
EnforceDetection_RejectClears ==
    /\ b_pc = "enforce"
    /\ det_idx < Len(detections)
    /\ LET det == detections[det_idx + 1]
           expected_label_from_dir == ExpectedLabel(single_class_dirs, Current[3])
           allowed_labels_in_dir == AllowedLabels(required_pairs, single_class_dirs, Current[3])
           outcome == DetectionOutcome(det, expected_label_from_dir, allowed_labels_in_dir)
       IN  /\ outcomes' = Append(outcomes, outcome)
           /\ yolo_lines' =
                 IF outcome = "line"
                 THEN Append(yolo_lines,
                             LabelLine(det, expected_label_from_dir, allowed_labels_in_dir))
                 ELSE IF outcome \in {"rejected_pixels", "rejected_yolo"} THEN <<>>
                 ELSE yolo_lines
    /\ det_idx' = det_idx + 1
    /\ UNCHANGED <<b_pc, image_paths_with_split, required_pairs, single_class_dirs, idx,
                   tally, detections, out_labels, out_images, src_exists, io, before,
                   last, tree_at_call>>
    /\ UNCHANGED <<convVars, splitVars, mainVars, detectorVars>>

\* lines 114-140: one iteration of the loop
EnforceDetection ==
    /\ b_pc = "enforce"
    /\ det_idx < Len(detections)
    /\ LET det == detections[det_idx + 1]
           expected_label_from_dir == ExpectedLabel(single_class_dirs, Current[3])
           allowed_labels_in_dir == AllowedLabels(required_pairs, single_class_dirs, Current[3])
           outcome == DetectionOutcome(det, expected_label_from_dir, allowed_labels_in_dir)
       IN  /\ outcomes' = Append(outcomes, outcome)
           /\ yolo_lines' =
                 IF outcome = "line"
                 THEN Append(yolo_lines,
                             LabelLine(det, expected_label_from_dir, allowed_labels_in_dir))
                 ELSE yolo_lines
    /\ det_idx' = det_idx + 1
    /\ UNCHANGED <<b_pc, image_paths_with_split, required_pairs, single_class_dirs, idx,
                   tally, detections, out_labels, out_images, src_exists, io, before,
                   last, tree_at_call>>
    /\ UNCHANGED <<convVars, splitVars, mainVars, detectorVars>>

\* the detections are used up: the loop ends
EnforceEnd ==
    /\ b_pc = "enforce"
    /\ det_idx = Len(detections)
    /\ b_pc' = "enforced"
    /\ UNCHANGED <<image_paths_with_split, required_pairs, single_class_dirs, idx,
                   tally, detections, yolo_lines, out_labels, out_images, src_exists,
                   io, before, last, tree_at_call>>
    /\ UNCHANGED <<convVars, splitVars, mainVars, enforceVars, detectorVars>>

EnforceNext == EnforceDetection \/ EnforceEnd

\* ------------------------------------------- the detector's initialisation
\* paligemma_detector.py: the globals of lines 17-20, _initialize_model_and_processor
\* (lines 22-48) and its call from get_detections_from_image (lines 96-104).
\* A call is one step; last_call records what it did.

MaxCalls == 3
Hardware == {"mps", "cuda", "cpu"}
\* lines 28-36: the device and the dtype chosen for the hardware
DeviceOf(hw) == hw
DtypeOf(hw) == CASE hw = "mps" -> "float16"
                 [] hw = "cuda" -> "bfloat16"
                 [] OTHER -> "float32"
\* where a call that goes past line 25 raises: nowhere, in the hardware probe
\* of lines 28-36 (outside the try), in the model's load of lines 40-42, or
\* in the processor's load of line 43
LoadFaults == {"none", "probe", "model", "processor"}
Globals == [model |-> _model, processor |-> _processor,
            device |-> _device, dtype |-> _dtype]
NoCall == [caller |-> "none", result |-> "none", early |-> FALSE, loads |-> 0,
           after_failure |-> FALSE,
           before |-> [model |-> "None", processor |-> "None",
                       device |-> "None", dtype |-> "None"]]

\* a variant whose except clause forgets to clear _model
Initialize_KeepsModel(fault) ==
    IF _model # "None" /\ _processor # "None"
    THEN [globals |-> Globals, raised |-> FALSE, early |-> TRUE, loads |-> 0]
    ELSE IF fault = "probe"
    THEN [globals |-> Globals, raised |-> TRUE, early |-> FALSE, loads |-> 0]
    ELSE LET set == [Globals EXCEPT !.device = DeviceOf(hardware),
                                    !.dtype = DtypeOf(hardware)]
         IN CASE fault = "model" ->
                   [globals |-> [set EXCEPT !.processor = "None"],
                    raised |-> TRUE, early |-> FALSE, loads |-> 1]
              [] fault = "processor" ->
                   [globals |-> [set EXCEPT !.model = "model", !.processor = "None"],
                    raised |-> TRUE, early |-> FALSE, loads |-> 2]
              [] OTHER ->
                   [globals |-> [set EXCEPT !.model = "model", !.processor = "processor"],
                    raised |-> FALSE, early |-> FALSE, loads |-> 2]

\* lines 22-48: the globals after one call, whether it raised, whether it
\* returned at line 25, and how many from_pretrained calls it made
Initialize(fault) ==
    IF _model # "None" /\ _processor # "None"
    THEN [globals |-> Globals, raised |-> FALSE, early |-> TRUE, loads |-> 0]
    ELSE IF fault = "probe"
    THEN [globals |-> Globals, raised |-> TRUE, early |-> FALSE, loads |-> 0]
    ELSE LET set == [Globals EXCEPT !.device = DeviceOf(hardware),
                                    !.dtype = DtypeOf(hardware)]
         IN CASE fault = "model" ->
                   \* line 40 raised before its assignment; line 47
                   [globals |-> [set EXCEPT !.model = "None", !.processor = "None"],
                    raised |-> TRUE, early |-> FALSE, loads |-> 1]
              [] fault = "processor" ->
                   \* line 40 assigned _model, line 43 raised; line 47
                   [globals |-> [set EXCEPT !.model = "None", !.processor = "None"],
                    raised |-> TRUE, early |-> FALSE, loads |-> 2]
              [] OTHER ->
                   [globals |-> [set EXCEPT !.model = "model", !.processor = "processor"],
                    raised |-> FALSE, early |-> FALSE, loads |-> 2]

DetectorOff ==
    /\ i_pc = "off" /\ hardware = "cpu" /\ n_calls = 0 /\ last_call = NoCall
    /\ _model = "None" /\ _processor = "None" /\ _device = "None" /\ _dtype = "None"

\* lines 17-20: the module has been imported
DetectorInit ==
    /\ i_pc = "imported" /\ hardware \in Hardware /\ n_calls = 0 /\ last_call = NoCall
    /\ _model = "None" /\ _processor = "None" /\ _device = "None" /\ _dtype = "None"

\* the step of one call by `caller`: r is what Initialize gives, result what
\* the caller gets
CallStep(caller, fault, r, result) ==
    /\ _model' = r.globals.model
    /\ _processor' = r.globals.processor
    /\ _device' = r.globals.device
    /\ _dtype' = r.globals.dtype
    /\ n_calls' = n_calls + 1
    /\ last_call' = [caller |-> caller, result |-> result, early |-> r.early,
                     loads |-> r.loads,
                     after_failure |-> last_call.result \in {"raised", "empty_list"},
                     before |-> Globals]
    /\ UNCHANGED <<i_pc, hardware>>
    /\ UNCHANGED <<convVars, splitVars, batchVars, mainVars, enforceVars>>

\* a direct call (generate_yolo_data.py line 194): it returns or raises
InitializeModelAndProcessor ==
    /\ i_pc = "imported" /\ n_calls < MaxCalls
    /\ \E fault \in LoadFaults :
          LET r == Initialize(fault)
          IN CallStep("main", fault, r, IF r.raised THEN "raised" ELSE "returned")

\* lines 96-104: get_detections_from_image calls it, turns an exception into
\* an empty detection list and goes on to the image otherwise
GetDetectionsFromImage ==
    /\ i_pc = "imported" /\ n_calls < MaxCalls
    /\ \E fault \in LoadFaults :
          LET r == Initialize(fault)
          IN CallStep("get_detections_from_image", fault, r,
                      IF r.raised \/ r.globals.model = "None"
                                  \/ r.globals.processor = "None"
                      THEN "empty_list" ELSE "proceeds")

DetectorNext == InitializeModelAndProcessor \/ GetDetectionsFromImage

\* ------------------------------------------------- the main machine
MaxDirs == 2         \* most input directories of one run
MaxRequire == 2      \* most --require-both declarations of one run
MaxRuns == 2         \* most runs of main on one output directory

\* The input paths of the main machine: the directory's base name, whether
\* the path is a directory, and what iterdir lists in it.  "in/site" and
\* "more/site" are two directories with the base name "site"; the image of
\* the second is the one the labeler knows as "site/a.png".  "in/duo" is the
\* input directory of the repeated runs.
MainDirs == {"in/helmet", "in/site", "more/site", "in/empty", "in/gone"}
DirTable ==
    [p \in MainDirs \cup {"in/duo"} |->
        CASE p = "in/helmet" -> [name |-> "helmet", is_dir |-> TRUE, files |-> <<"helmet/a.jpg">>]
          [] p = "in/duo" -> [name |-> "duo", is_dir |-> TRUE,
                              files |-> <<"duo/x.jpg", "duo/y.jpg">>]
          [] p = "in/site" -> [name |-> "site", is_dir |-> TRUE,
                               files |-> <<"site/notes.txt", "site/a.jpg">>]
          [] p = "more/site" -> [name |-> "site", is_dir |-> TRUE, files |-> <<"site/a.png">>]
          [] p = "in/empty" -> [name |-> "empty", is_dir |-> TRUE, files |-> <<>>]
          [] p = "in/gone" -> [name |-> "gone", is_dir |-> FALSE, files |-> <<>>]]
IMAGE_EXTENSIONS == {".jpg", ".jpeg", ".png"}
Suffix(item) == IF item = "site/notes.txt" THEN ".txt"
                ELSE IF item = "site/a.png" THEN ".png" ELSE ".jpg"
IsImage(item) == Suffix(item) \in IMAGE_EXTENSIONS
InputDirLists ==
    {l \in SeqsUpTo(MainDirs, MaxDirs) :
        l # <<>> /\ \A i, j \in DOMAIN l : i # j => l[i] # l[j]}

\* str.lower on the class names a declaration can carry
Lower(class) == IF class = "Helmet" THEN "helmet" ELSE class
RequireDecls ==
    { <<"site", "helmet", "glove">>, <<"site", "glove", "glove">>,
      <<"site", "Helmet", "glove">>, <<"site", "helmet", "hat">>,
      <<"ghost", "helmet", "glove">>, <<"ghost", "hat", "glove">> }
RequireArgs == SeqsUpTo(RequireDecls, MaxRequire)

\* lines 205-212: the loop over the declarations; it breaks at the first
\* class name that is not in CLASS_MAP
RECURSIVE RequireBoth(_, _)
RequireBoth(args, pairs) ==
    IF args = <<>> THEN [valid_requirement |-> TRUE, required_pairs |-> pairs]
    ELSE LET req == Head(args)
         IN  IF req[2] \notin DOMAIN CLASS_MAP \/ req[3] \notin DOMAIN CLASS_MAP
             THEN [valid_requirement |-> FALSE, required_pairs |-> pairs]
             ELSE RequireBoth(Tail(args),
                              PutFile(pairs, req[1], <<Lower(req[2]), Lower(req[3])>>))

\* a dict in insertion order: <<key, value>>, ...; assigning to a key that is
\* there keeps the key's place
DictKeys(d) == {d[k][1] : k \in DOMAIN d}
DictSet(d, key, value) ==
    IF key \in DictKeys(d)
    THEN [k \in DOMAIN d |-> IF d[k][1] = key THEN <<key, value>> ELSE d[k]]
    ELSE Append(d, <<key, value>>)

\* lines 218-231: the loop over the input directories
RECURSIVE ScanDirs(_, _, _)
ScanDirs(dirs, multi_class_source_dirs, acc) ==
    IF dirs = <<>> THEN acc
    ELSE LET input_path == Head(dirs)
             source_dir_name == DirTable[input_path].name
             acc1 ==
                 IF ~DirTable[input_path].is_dir THEN acc
                 ELSE [grouped_images |->
                           DictSet(acc.grouped_images, source_dir_name,
                                   SelectSeq(DirTable[input_path].files, IsImage)),
                       single_class_dirs |->
                           IF source_dir_name \in DOMAIN CLASS_MAP
                              /\ source_dir_name \notin multi_class_source_dirs
                           THEN PutFile(acc.single_class_dirs, source_dir_name, source_dir_name)
                           ELSE acc.single_class_dirs,
                       input_dir_names |-> acc.input_dir_names \cup {source_dir_name}]
         IN  ScanDirs(Tail(dirs), multi_class_source_dirs, acc1)

\* lines 262-275: the three assignment loops over one shuffled group
AssignSplits(image_list_, counts, source_dir_name) ==
    [k \in 1..Min(Len(image_list_), counts[1] + counts[2] + counts[3]) |->
        <<IF k <= counts[1] THEN "train"
          ELSE IF k <= counts[1] + counts[2] THEN "val" ELSE "test",
          image_list_[k], source_dir_name>>]

MainOff ==
    /\ m_pc = "off" /\ input_dirs = <<>> /\ required_pairs_args = <<>>
    /\ model_loads = FALSE /\ runs = 0 /\ grouped_images = <<>> /\ input_dir_names = {}
    /\ group_idx = 0 /\ exit_code = "none" /\ data_yaml = FALSE

\* a run of main: any input directories, any declarations
MainInit ==
    /\ m_pc = "init_model"
    /\ input_dirs \in InputDirLists
    /\ required_pairs_args \in RequireArgs
    /\ model_loads \in BOOLEAN /\ runs = 0
    /\ grouped_images = <<>> /\ input_dir_names = {}
    /\ group_idx = 0 /\ exit_code = "none" /\ data_yaml = FALSE

\* process_image_batch before main calls it; the output tree may hold files
\* of an earlier run, and a source image may be gone by the time it is reached
BatchStandby ==
    /\ b_pc = "off" /\ image_paths_with_split = <<>>
    /\ required_pairs = <<>> /\ single_class_dirs = <<>>
    /\ idx = 0 /\ tally = ZeroTally /\ detections = <<>> /\ yolo_lines = <<>>
    /\ \E ls \in SUBSET {target_lbl_path("train", "site/a.jpg")} :
          out_labels = [key \in ls |-> OldFile]
    /\ \E is \in SUBSET {target_img_path("train", "site/a.jpg")} :
          out_images = [key \in is |-> OldFile]
    /\ \E gone \in SUBSET {"helmet/a.jpg", "site/a.jpg"} : src_exists = Images \ gone
    /\ io = NoIo /\ before = Snapshot /\ last = NoPass
    /\ tree_at_call = [labels |-> DOMAIN out_labels, images |-> DOMAIN out_images]

\* lines 194-203: load the model, or exit; make the output directories
InitializeDetector ==
    /\ m_pc = "init_model"
    /\ IF model_loads
       THEN m_pc' = "require_both" /\ UNCHANGED exit_code
       ELSE m_pc' = "exited" /\ exit_code' = "exit1"
    /\ UNCHANGED <<input_dirs, required_pairs_args, model_loads, runs, grouped_images,
                   input_dir_names, group_idx, data_yaml>>
    /\ UNCHANGED <<convVars, splitVars, batchVars, enforceVars, detectorVars>>

\* lines 205-212: required_pairs, or exit on a class name outside CLASS_MAP
ProcessRequireBoth ==
    /\ m_pc = "require_both"
    /\ LET r == RequireBoth(required_pairs_args, <<>>)
       IN  /\ required_pairs' = r.required_pairs
           /\ IF r.valid_requirement
              THEN m_pc' = "collect" /\ UNCHANGED exit_code
              ELSE m_pc' = "exited" /\ exit_code' = "exit1"
    /\ UNCHANGED <<input_dirs, required_pairs_args, model_loads, runs, grouped_images,
                   input_dir_names, group_idx, data_yaml>>
    /\ UNCHANGED <<b_pc, image_paths_with_split, single_class_dirs, idx, tally,
                   detections, yolo_lines, out_labels, out_images, src_exists, io,
                   before, last, tree_at_call>>
    /\ UNCHANGED <<convVars, splitVars, enforceVars, detectorVars>>

\* lines 216-232: scan the input directories; return if no image was found
CollectImages ==
    /\ m_pc = "collect"
    /\ LET acc == ScanDirs(input_dirs, DOMAIN required_pairs,
                           [grouped_images |-> <<>>, single_class_dirs |-> <<>>,
                            input_dir_names |-> {}])
       IN  /\ grouped_images' = acc.grouped_images
           /\ single_class_dirs' = acc.single_class_dirs
           /\ input_dir_names' = acc.input_dir_names
           /\ IF \A k \in DOMAIN acc.grouped_images : acc.grouped_images[k][2] = <<>>
              THEN m_pc' = "returned" /\ exit_code' = "return"
              ELSE m_pc' = "validate_dirs" /\ UNCHANGED exit_code
    /\ UNCHANGED <<input_dirs, required_pairs_args, model_loads, runs, group_idx, data_yaml>>
    /\ UNCHANGED <<b_pc, image_paths_with_split, required_pairs, idx, tally,
                   detections, yolo_lines, out_labels, out_images, src_exists, io,
                   before, last, tree_at_call>>
    /\ UNCHANGED <<convVars, splitVars, enforceVars, detectorVars>>

\* lines 234-235: exit if a declaration's directory was not scanned
ValidateRequireDirs ==
    /\ m_pc = "validate_dirs"
    /\ IF \E dir_name \in DOMAIN required_pairs : dir_name \notin input_dir_names
       THEN m_pc' = "exited" /\ exit_code' = "exit1"
       ELSE m_pc' = "split" /\ UNCHANGED exit_code
    /\ UNCHANGED <<input_dirs, required_pairs_args, model_loads, runs, grouped_images,
                   input_dir_names, group_idx, data_yaml>>
    /\ UNCHANGED <<convVars, splitVars, batchVars, enforceVars, detectorVars>>

\* lines 242-275, one pass of the loop over the groups: skip an empty group,
\* else shuffle, count and assign
SplitGroup ==
    /\ m_pc = "split"
    /\ group_idx < Len(grouped_images)
    /\ LET source_dir_name == grouped_images[group_idx + 1][1]
           group == grouped_images[group_idx + 1][2]
       IN  IF group = <<>> THEN UNCHANGED <<all_splits_data, grouped_images>>
           ELSE \E shuffled \in Shuffles(group) :
                   \* the shuffle is in place: the dict's list is the one shuffled
                   /\ grouped_images' = [grouped_images EXCEPT ![group_idx + 1] =
                                            <<source_dir_name, shuffled>>]
                   /\ all_splits_data' = all_splits_data \o
                       AssignSplits(shuffled, SplitCounts(Len(shuffled)), source_dir_name)
    /\ group_idx' = group_idx + 1
    /\ UNCHANGED <<m_pc, input_dirs, required_pairs_args, model_loads, runs,
                   input_dir_names, exit_code, data_yaml>>
    /\ UNCHANGED <<s_pc, image_list, n_images, n_train, n_val, n_test, loop_i, current_idx>>
    /\ UNCHANGED <<convVars, batchVars, enforceVars, detectorVars>>

\* line 282: process_image_batch(all_splits_data, output_path, required_pairs,
\* single_class_dirs) begins
CallBatch ==
    /\ m_pc = "split"
    /\ group_idx = Len(grouped_images)
    /\ m_pc' = "batch"
    /\ b_pc' = "loop"
    /\ image_paths_with_split' = all_splits_data
    /\ idx' = 0 /\ tally' = ZeroTally /\ io' = NoIo /\ last' = NoPass
    /\ before' = Snapshot
    /\ tree_at_call' = [labels |-> DOMAIN out_labels, images |-> DOMAIN out_images]
    /\ UNCHANGED <<required_pairs, single_class_dirs, detections, yolo_lines,
                   out_labels, out_images, src_exists>>
    /\ UNCHANGED <<input_dirs, required_pairs_args, model_loads, runs, grouped_images,
                   input_dir_names, group_idx, exit_code, data_yaml>>
    /\ UNCHANGED <<convVars, splitVars, enforceVars, detectorVars>>

\* lines 283-294: the batch has returned; print the counters, write data.yaml
\* (a failure to write it is printed and passed over), return
FinishMain ==
    /\ m_pc = "batch"
    /\ b_pc = "returned"
    /\ data_yaml' \in BOOLEAN
    /\ m_pc' = "finished"
    /\ exit_code' = "return"
    /\ UNCHANGED <<input_dirs, required_pairs_args, model_loads, runs, grouped_images,
                   input_dir_names, group_idx>>
    /\ UNCHANGED <<convVars, splitVars, batchVars, enforceVars, detectorVars>>

MainNext ==
    \/ InitializeDetector \/ ProcessRequireBoth \/ CollectImages
    \/ ValidateRequireDirs \/ SplitGroup \/ CallBatch \/ FinishMain
    \/ SkipIdempotent \/ SkipMissingSource \/ Detect \/ WriteAndCopy \/ ReturnTally

\* main is run again on the same arguments and the same output directory
\* once a run has completed: a new process, whose globals are fresh and
\* whose output tree is the one the run before left (lines 296-313, 187-203)
RunAgain ==
    /\ m_pc = "finished" /\ runs + 1 < MaxRuns
    /\ m_pc' = "init_model" /\ runs' = runs + 1
    /\ grouped_images' = <<>> /\ input_dir_names' = {} /\ group_idx' = 0
    /\ exit_code' = "none"
    /\ all_splits_data' = <<>>
    /\ b_pc' = "off" /\ image_paths_with_split' = <<>>
    /\ required_pairs' = <<>> /\ single_class_dirs' = <<>>
    /\ idx' = 0 /\ tally' = ZeroTally /\ detections' = <<>> /\ yolo_lines' = <<>>
    /\ io' = NoIo /\ last' = NoPass
    /\ before' = [tally |-> ZeroTally, labels |-> DOMAIN out_labels,
                  images |-> DOMAIN out_images]
    /\ tree_at_call' = [labels |-> DOMAIN out_labels, images |-> DOMAIN out_images]
    /\ UNCHANGED <<input_dirs, required_pairs_args, model_loads, data_yaml,
                   out_labels, out_images, src_exists>>
    /\ UNCHANGED <<s_pc, image_list, n_images, n_train, n_val, n_test, loop_i, current_idx>>
    /\ UNCHANGED <<convVars, enforceVars, detectorVars>>

\* the first of the repeated runs: the group "duo", an empty output tree
RerunInit ==
    /\ m_pc = "init_model"
    /\ input_dirs = <<"in/duo">>
    /\ required_pairs_args = <<>>
    /\ model_loads = TRUE /\ runs = 0
    /\ grouped_images = <<>> /\ input_dir_names = {}
    /\ group_idx = 0 /\ exit_code = "none" /\ data_yaml = FALSE
    /\ b_pc = "off" /\ image_paths_with_split = <<>>
    /\ required_pairs = <<>> /\ single_class_dirs = <<>>
    /\ idx = 0 /\ tally = ZeroTally /\ detections = <<>> /\ yolo_lines = <<>>
    /\ out_labels = <<>> /\ out_images = <<>>
    /\ src_exists = RerunImages
    /\ io = NoIo /\ before = Snapshot /\ last = NoPass
    /\ tree_at_call = [labels |-> {}, images |-> {}]

\* the input directories do not change, so no scanned image is ever missing
\* and the pass of lines 83-85 is never taken
RerunNext ==
    \/ InitializeDetector \/ ProcessRequireBoth \/ CollectImages
    \/ ValidateRequireDirs \/ SplitGroup \/ CallBatch \/ FinishMain
    \/ SkipIdempotent \/ Detect \/ WriteAndCopy \/ ReturnTally
    \/ RunAgain

\* ---------------------------------------------------- specifications
InitConv == ConvInit /\ SplitOff /\ BatchOff /\ MainOff /\ EnforceOff /\ DetectorOff
InitSplit == SplitInit /\ ConvOff /\ BatchOff /\ MainOff /\ EnforceOff /\ DetectorOff
InitBatch == BatchInit /\ ConvOff /\ SplitOff /\ MainOff /\ EnforceOff /\ DetectorOff
InitMain == MainInit /\ BatchStandby /\ ConvOff /\ SplitOff /\ EnforceOff /\ DetectorOff
InitEnforce == EnforceInit /\ ConvOff /\ SplitOff /\ MainOff /\ DetectorOff
InitDetector == DetectorInit /\ ConvOff /\ SplitOff /\ BatchOff /\ MainOff /\ EnforceOff
InitRerun == RerunInit /\ ConvOff /\ SplitOff /\ EnforceOff /\ DetectorOff
InitCounts == CountsInit /\ ConvOff /\ BatchOff /\ MainOff /\ EnforceOff /\ DetectorOff
InitConvAny == ConvInitAny /\ SplitOff /\ BatchOff /\ MainOff /\ EnforceOff /\ DetectorOff

SpecConv == InitConv /\ [][ConvNext]_vars
SpecSplit == InitSplit /\ [][SplitNext]_vars
SpecCounts == InitCounts /\ [][CountsNext]_vars
SpecBatch == InitBatch /\ [][BatchNext]_vars
SpecMain == InitMain /\ [][MainNext]_vars
SpecEnforce == InitEnforce /\ [][EnforceNext]_vars
SpecConvAny == InitConvAny /\ [][ConvAnyNext]_vars
SpecDetector == InitDetector /\ [][DetectorNext]_vars
SpecRerun == InitRerun /\ [][RerunNext]_vars
\* the loop body is straight-line code: a pass that can be taken is taken
SpecBatchFair == InitBatch /\ [][BatchNext]_vars /\ WF_vars(BatchNext)

\* ------------------------------------------------------------ claims
Abs(x) == IF x < 0 THEN -x ELSE x
SplitOf(img) == {all_splits_data[k][1] : k \in {j \in DOMAIN all_splits_data : all_splits_data[j][2] = img}}
TimesEmitted(img) == Cardinality({k \in DOMAIN all_splits_data : all_splits_data[k][2] = img})
CountsSet == s_pc \in {"train", "val", "test", "done", "counted"}

\* the assignment the loop has just handled, and its two target files
Handled == image_paths_with_split[idx]
HandledLbl == target_lbl_path(Handled[1], Handled[2])
HandledImg == target_img_path(Handled[1], Handled[2])
PassEnded == b_pc \in {"loop", "returned"} /\ idx >= 1
SumHandled(t) == t.processed + t.skipped + t.errors
\* every assignment's label file and image copy were there when the call began
AllTargetsAtCall ==
    \A k \in DOMAIN image_paths_with_split :
        /\ target_lbl_path(image_paths_with_split[k][1], image_paths_with_split[k][2])
              \in tree_at_call.labels
        /\ target_img_path(image_paths_with_split[k][1], image_paths_with_split[k][2])
              \in tree_at_call.images
\* the image of this pass has been copied to its target
HandledCopied ==
    HandledImg \in DOMAIN out_images /\ out_images[HandledImg].src = Handled[2]
\* both conversions accept the detection's box
BoxValid(det) ==
    /\ paligemma_to_pixels(det.box, det.img_width, det.img_height) # None
    /\ yolo_coord_conversion(paligemma_to_pixels(det.box, det.img_width, det.img_height), det.img_width, det.img_height) # None

\* C1: a call over an output tree that already holds every assignment's label
\* file and image copy calls the detector zero times, writes no label, copies
\* no image, and counts every assignment as skipped and nothing else.
C1_RerunSkipsAll ==
    (b_pc \in {"loop", "write", "returned"} /\ AllTargetsAtCall) =>
        /\ b_pc # "write"
        /\ io = NoIo
        /\ DOMAIN out_labels = tree_at_call.labels
        /\ DOMAIN out_images = tree_at_call.images
        /\ \A key \in DOMAIN out_labels : out_labels[key] = OldFile
        /\ \A key \in DOMAIN out_images : out_images[key] = OldFile
        /\ tally = [ZeroTally EXCEPT !.skipped = idx]
        /\ b_pc = "returned" => tally.skipped = Len(image_paths_with_split)

\* two assignments over a complete tree, both skipped, the call returned
C1_Witness ==
    /\ b_pc = "returned" /\ AllTargetsAtCall
    /\ Len(image_paths_with_split) = 2
    /\ tally.skipped = 2 /\ tally.processed = 0
    /\ io.detector_calls = 0

\* C2: when the detector fails on an image (rather than succeeding with zero
\* detections) the pass ends as an error: errors + 1, processed unchanged, no
\* label file written and no image copied for it, and the loop goes on.
\* (A pass whose label write or image copy fails is left to C6.)
C2_DetectorFailureIsError ==
    (PassEnded /\ last.kind \in FailureKinds /\ last.path # "write_failed") =>
        /\ tally.errors = before.tally.errors + 1
        /\ tally.processed = before.tally.processed
        /\ HandledLbl \notin DOMAIN out_labels
        /\ ~HandledCopied

\* C3: for every group size n >= 1 the split counts are >= 0 and add up to n,
\* and once the three assignment loops have run every image of the group has
\* been emitted exactly once, in exactly one of train, val, test.
C3_SplitPartition ==
    /\ CountsSet => /\ n_train >= 0 /\ n_val >= 0 /\ n_test >= 0
                    /\ n_train + n_val + n_test = n_images
    /\ s_pc = "done" =>
          /\ Len(all_splits_data) = n_images
          /\ \A k \in 1..n_images :
                /\ TimesEmitted(image_list[k]) = 1
                /\ Cardinality(SplitOf(image_list[k])) = 1
                /\ SplitOf(image_list[k]) \subseteq {"train", "val", "test"}

\* a group of 7, shuffled out of its scan order, split into 5 + 2 + 0 with all
\* seven images emitted
C3_Witness ==
    /\ s_pc = "done" /\ n_images = 7
    /\ image_list # [i \in 1..7 |-> i]
    /\ <<n_train, n_val, n_test>> = <<5, 2, 0>>
    /\ Len(all_splits_data) = 7

\* C4: every group of n >= 3 images gets at least one image in val and at
\* least one in test.
C4_ValAndTestFed ==
    (s_pc = "done" /\ n_images >= 3) =>
        /\ \E k \in DOMAIN all_splits_data : all_splits_data[k][1] = "val"
        /\ \E k \in DOMAIN all_splits_data : all_splits_data[k][1] = "test"

\* C5: the counts are the rule of the specification, with t the least integer
\* >= 0.70 n and v the least integer >= 0.15 n: (n-2, 1, 1) if n > 2 and
\* t >= n-1; else (n-1, 1, 0) if n > 1 and t = n; else (t, v, n-t-v), a
\* negative test count becoming 0 with val = n-t.  10 -> (7, 2, 1),
\* 2 -> (1, 1, 0), 1 -> (1, 0, 0).
C5_SplitRule ==
    CountsSet =>
        LET n == n_images
            t == CHOOSE k \in 0..n : 100 * k >= 70 * n /\ 100 * (k - 1) < 70 * n
            v == CHOOSE k \in 0..n : 100 * k >= 15 * n /\ 100 * (k - 1) < 15 * n
            rule == IF n > 2 /\ t >= n - 1 THEN <<n - 2, 1, 1>>
                    ELSE IF n > 1 /\ t = n THEN <<n - 1, 1, 0>>
                    ELSE IF n - t - v < 0 THEN <<t, n - t, 0>>
                    ELSE <<t, v, n - t - v>>
        IN  /\ <<n_train, n_val, n_test>> = rule
            /\ n = 10 => <<n_train, n_val, n_test>> = <<7, 2, 1>>
            /\ n = 2 => <<n_train, n_val, n_test>> = <<1, 1, 0>>
            /\ n = 1 => <<n_train, n_val, n_test>> = <<1, 0, 0>>

\* the size 10 of the specification's example, counted as 7 + 2 + 1
C5_Witness ==
    /\ s_pc = "counted" /\ n_images = 10
    /\ <<n_train, n_val, n_test>> = <<7, 2, 1>>

\* C6 as claimed: after a failed label write or image copy neither target file
\* of the assignment exists, errors is one more, processed and copied are as
\* before, and the loop goes on.
C6_RollbackLeavesNothing ==
    (PassEnded /\ last.path = "write_failed") =>
        /\ HandledLbl \notin DOMAIN out_labels
        /\ HandledImg \notin DOMAIN out_images
        /\ tally.errors = before.tally.errors + 1
        /\ tally.processed = before.tally.processed
        /\ tally.copied = before.tally.copied

\* C6 as amended: after a failed label write or image copy each target file of
\* the assignment is absent unless its deletion failed, and then it is left in
\* place; errors is one more, processed and copied are as before, and the
\* loop goes on.
C6_RollbackUnlessUnlinkFails ==
    (PassEnded /\ last.path = "write_failed") =>
        /\ HandledLbl \in DOMAIN out_labels <=> last.lbl_unlink_failed
        /\ HandledImg \in DOMAIN out_images <=> last.img_unlink_failed
        /\ tally.errors = before.tally.errors + 1
        /\ tally.processed = before.tally.processed
        /\ tally.copied = before.tally.copied

\* a copy that failed part-way in the first of two passes: the label is gone,
\* the image could not be deleted and is still there, the loop is at the next
C6_Witness ==
    /\ PassEnded /\ last.path = "write_failed"
    /\ idx = 1 /\ b_pc = "loop" /\ Len(image_paths_with_split) = 2
    /\ HandledLbl \notin DOMAIN out_labels
    /\ HandledImg \in DOMAIN out_images /\ ~out_images[HandledImg].whole
    /\ last.img_unlink_failed
    /\ tally.errors = 1

\* C7: if a --require-both declaration names a class outside the catalog, or a
\* group that is not among the scanned input directories, main ends in the
\* fatal exit before process_image_batch is called: no detector call, no
\* label written, no image copied.
BadClassDeclared ==
    \E k \in DOMAIN required_pairs_args :
        \/ required_pairs_args[k][2] \notin DOMAIN CLASS_MAP
        \/ required_pairs_args[k][3] \notin DOMAIN CLASS_MAP
ScannedNames ==
    {DirTable[input_dirs[k]].name : k \in {j \in DOMAIN input_dirs : DirTable[input_dirs[j]].is_dir}}
UnscannedGroupDeclared ==
    \E k \in DOMAIN required_pairs_args : required_pairs_args[k][1] \notin ScannedNames
MainEnded == m_pc \in {"exited", "returned", "finished"}
C7_ConfigInvalidIsFatal ==
    (m_pc # "off" /\ (BadClassDeclared \/ UnscannedGroupDeclared)) =>
        /\ b_pc = "off"
        /\ io = NoIo
        /\ MainEnded => exit_code = "exit1"

\* C8: the loop handles the assignments one at a time in list order, every
\* pass counts as exactly one of processed, skipped, errors, and whatever the
\* passes run into the call returns the counters after the last assignment.
C8_Pass ==
    /\ image_paths_with_split' = image_paths_with_split
    /\ \/ idx' = idx + 1 /\ b_pc \in {"loop", "write"} /\ b_pc' = "loop"
          /\ idx < Len(image_paths_with_split)
          /\ SumHandled(tally') = SumHandled(tally) + 1
       \/ idx' = idx /\ b_pc = "loop" /\ b_pc' = "write"
          /\ idx < Len(image_paths_with_split)
          /\ SumHandled(tally') = SumHandled(tally)
       \/ idx' = idx /\ b_pc = "loop" /\ b_pc' = "returned"
          /\ idx = Len(image_paths_with_split)
          /\ tally' = tally
C8_EveryAssignmentHandled ==
    /\ [][C8_Pass]_vars
    /\ [](b_pc = "returned" =>
            /\ idx = Len(image_paths_with_split)
            /\ SumHandled(tally) = Len(image_paths_with_split))
    /\ <>(b_pc = "returned")

\* a returned call of two assignments: the first ended as an error, the
\* second was skipped
C8_Witness ==
    /\ b_pc = "returned" /\ idx = 2 /\ Len(image_paths_with_split) = 2
    /\ tally.errors = 1 /\ tally.skipped = 1
    /\ last.path = "skipped_missing_source"

\* the case of C9: the image of a required-pair group, the detector returned
\* exactly one detection, labelled with a class of the pair, its box valid,
\* and the label write and the image copy went through
C9_Case ==
    /\ PassEnded /\ last.path = "written" /\ last.kind = "decoded"
    /\ Handled[3] \in DOMAIN required_pairs
    /\ Len(detections) = 1
    /\ detections[1].label \in {required_pairs[Handled[3]][1], required_pairs[Handled[3]][2]}
    /\ BoxValid(detections[1])
C9_OneLineWritten ==
    /\ Len(yolo_lines) = 1
    /\ yolo_lines[1][1] = CLASS_MAP[detections[1].label]
    /\ HandledLbl \in DOMAIN out_labels /\ out_labels[HandledLbl].src = Handled[2]
    /\ tally.processed = before.tally.processed + 1
    /\ tally.errors = before.tally.errors

\* C9 as claimed: in that case a one-line label file with the class id of the
\* detection is written, the image counts as processed, required_missing is
\* one more and errors is as before.
C9_PairOneDetection ==
    C9_Case =>
        /\ C9_OneLineWritten
        /\ tally.required_missing_warnings = before.tally.required_missing_warnings + 1

\* C9 as amended: the same, with required_missing one more when the pair's two
\* classes differ and unchanged when the pair names one class twice.
C9_PairOneDetectionDistinct ==
    C9_Case =>
        /\ C9_OneLineWritten
        /\ tally.required_missing_warnings =
              before.tally.required_missing_warnings
              + (IF required_pairs[Handled[3]][1] # required_pairs[Handled[3]][2] THEN 1 ELSE 0)

\* site/a.jpg of the pair (helmet, glove), one helmet detection: one line of
\* class 1, processed and warned
C9_Witness ==
    /\ C9_Case
    /\ required_pairs[Handled[3]] = <<"helmet", "glove">>
    /\ detections[1].label = "helmet"
    /\ yolo_lines[1][1] = 1
    /\ tally.required_missing_warnings = before.tally.required_missing_warnings + 1
    /\ tally.processed = before.tally.processed + 1

StrictlyInside ==
    /\ 0 < box_coords[1] /\ box_coords[1] < box_coords[3] /\ box_coords[3] < img_width
    /\ 0 < box_coords[2] /\ box_coords[2] < box_coords[4] /\ box_coords[4] < img_height

\* C10 as claimed: a pixel box strictly inside the image, written as a label
\* line and read back for the same image, comes back as a box (never absent)
\* with every coordinate within 1 pixel of the original.
C10_RoundTripAlwaysABox ==
    (StrictlyInside /\ c_pc \in {"rejected", "back"}) =>
        /\ c_pc = "back"
        /\ pixel_back # None
        /\ \A k \in 1..4 : Abs(pixel_back[k] - box_coords[k]) <= 1

\* C10 as amended: the label line is always produced; read back, it is either
\* absent or a box with every coordinate equal to the original or one less,
\* and it is a box whenever the original is at least 2 pixels wide and high.
C10_RoundTripWithinOne ==
    (StrictlyInside /\ c_pc \in {"rejected", "back"}) =>
        /\ c_pc = "back"
        /\ pixel_back # None =>
              \A k \in 1..4 : pixel_back[k] \in {box_coords[k] - 1, box_coords[k]}
        /\ (box_coords[3] - box_coords[1] >= 2 /\ box_coords[4] - box_coords[2] >= 2)
              => pixel_back # None

\* a box 2 wide in a 6 x 4 image that comes back 1 wide: (2,1,4,3) -> (2,1,3,3)
C10_Witness ==
    /\ c_pc = "back" /\ StrictlyInside
    /\ img_width = 6 /\ box_coords = <<2, 1, 4, 3>>
    /\ pixel_back = <<2, 1, 3, 3>>

\* the detections the enforcement loop has taken, and the numbers of the line
\* a detection's box converts to
TakenDetections == SubSeq(detections, 1, det_idx)
ConvertedBox(det) ==
    yolo_coord_conversion(paligemma_to_pixels(det.box, det.img_width, det.img_height),
                          det.img_width, det.img_height)
InEnforcement == b_pc \in {"enforce", "enforced"}

\* C11: in a single-class directory every detection taken so far whose box
\* converts has its label line, in order, with the class id of the directory's
\* name, whatever label the detector gave it; no other line exists.
C11_SingleClassForcesLabel ==
    (InEnforcement /\ Current[3] \in DOMAIN single_class_dirs) =>
        LET kept == SelectSeq(TakenDetections, BoxValid)
        IN  /\ Len(yolo_lines) = Len(kept)
            /\ \A j \in DOMAIN kept :
                  yolo_lines[j] =
                      <<CLASS_MAP[single_class_dirs[Current[3]]]>> \o ConvertedBox(kept[j])

\* helmet/a.jpg, detections labelled person and glove with good boxes: two
\* lines of class 1 (helmet)
C11_Witness ==
    /\ b_pc = "enforced"
    /\ Current[3] = "helmet" /\ single_class_dirs["helmet"] = "helmet"
    /\ Len(detections) = 2
    /\ detections[1].label = "person" /\ detections[2].label = "glove"
    /\ BoxValid(detections[1]) /\ BoxValid(detections[2])
    /\ Len(yolo_lines) = 2 /\ yolo_lines[1][1] = 1 /\ yolo_lines[2][1] = 1

\* C12: in a pair's directory the lines are those of the detections labelled
\* with one of the pair's two classes (whose box converts), each with the id of
\* its own label, and a detection with any other label ends without a line; in
\* an unrestricted directory the lines are those of the detections labelled
\* with a catalog class, each with that label's catalog index.
C12_PairAndUnrestrictedFilter ==
    (InEnforcement /\ Current[3] \notin DOMAIN single_class_dirs) =>
        LET allowed == IF Current[3] \in DOMAIN required_pairs
                       THEN {required_pairs[Current[3]][1], required_pairs[Current[3]][2]}
                       ELSE ClassNames
            Keep(det) == det.label \in allowed /\ BoxValid(det)
            kept == SelectSeq(TakenDetections, Keep)
        IN  /\ Len(yolo_lines) = Len(kept)
            /\ \A j \in DOMAIN kept :
                  yolo_lines[j] = <<CLASS_MAP[kept[j].label]>> \o ConvertedBox(kept[j])
            /\ \A j \in DOMAIN yolo_lines :
                  yolo_lines[j][1] \in {CLASS_MAP[a] : a \in allowed}
            /\ \A k \in 1..det_idx :
                  detections[k].label \notin allowed => outcomes[k] = "no_label"

\* site/a.jpg of the pair (helmet, glove), detections labelled person and glove
\* with good boxes: the one line is the glove's, class 2
C12_Witness ==
    /\ b_pc = "enforced"
    /\ Current[3] = "site" /\ "site" \in DOMAIN required_pairs
    /\ required_pairs["site"] = <<"helmet", "glove">>
    /\ Len(detections) = 2
    /\ detections[1].label = "person" /\ detections[2].label = "glove"
    /\ BoxValid(detections[1]) /\ BoxValid(detections[2])
    /\ outcomes = <<"no_label", "line">>
    /\ Len(yolo_lines) = 1 /\ yolo_lines[1][1] = 2

\* a pixel box that lies in the image and has an area
ValidPixelBox(box) ==
    /\ 0 <= box[1] /\ box[1] < box[3] /\ box[3] <= img_width
    /\ 0 <= box[2] /\ box[2] < box[4] /\ box[4] <= img_height
FromVlmDone == box_norm # None /\ c_pc # "vlm"

\* C13: whatever the VLM box and the image size, paligemma_to_pixels gives
\* absent or a pixel box with 0 <= xmin < xmax <= width and 0 <= ymin < ymax <=
\* height; whatever the label line and the image size, so does yolo_to_pixels.
C13_PixelBoxesValid ==
    /\ FromVlmDone => (box_coords = None \/ ValidPixelBox(box_coords))
    /\ c_pc = "back" => (pixel_back = None \/ ValidPixelBox(pixel_back))

\* the line (0.5, 0.5, 0, 0) read back for a 3x3 image: both corners are
\* (1, 1), and the answer is absent
C13_Witness ==
    /\ c_pc = "back" /\ box_coords = None
    /\ yolo_coords_str = <<500000, 500000, 0, 0>>
    /\ img_width = 3 /\ img_height = 3
    /\ pixel_back = None

\* C14: for positive image sides the VLM box (0, 0, 1000, 1000) becomes the
\* pixel box (0, 0, width, height).
C14_FullBoxIsWholeImage ==
    (FromVlmDone /\ box_norm = <<0, 0, 1000, 1000>> /\ img_width > 0 /\ img_height > 0) =>
        /\ c_pc # "rejected_vlm"
        /\ box_coords = <<0, 0, img_width, img_height>>

\* the box (0, 0, 1000, 1000) on a 3x2 image: (0, 0, 3, 2)
C14_Witness ==
    /\ FromVlmDone /\ c_pc = "box"
    /\ box_norm = <<0, 0, 1000, 1000>>
    /\ img_width = 3 /\ img_height = 2
    /\ box_coords = <<0, 0, 3, 2>>

\* yolo_coord_conversion has answered for the pixel box in box_coords
ToYoloDone == box_coords # None /\ c_pc \in {"rejected", "line", "back"}
DegenerateInImage ==
    \/ img_width <= 0 \/ img_height <= 0
    \/ Max(0, box_coords[1]) >= Min(img_width, box_coords[3])
    \/ Max(0, box_coords[2]) >= Min(img_height, box_coords[4])

\* C15: yolo_coord_conversion answers absent when a side of the image is <= 0
\* or the box clamped to the image is degenerate; otherwise it answers a line
\* whose four 6-decimal numbers lie in [0, 1], with width and height above 0.
C15_YoloLineInRange ==
    ToYoloDone =>
        IF DegenerateInImage THEN c_pc = "rejected" /\ yolo_coords_str = None
        ELSE /\ c_pc # "rejected"
             /\ \A k \in 1..4 : 0 <= yolo_coords_str[k] /\ yolo_coords_str[k] <= Million
             /\ yolo_coords_str[3] > 0 /\ yolo_coords_str[4] > 0

\* the line the k-th detection gives when it is the image's only detection
LineAlone(k) ==
    LabelLine(detections[k], ExpectedLabel(single_class_dirs, Current[3]),
              AllowedLabels(required_pairs, single_class_dirs, Current[3]))
LinesUpTo(k) == Cardinality({j \in 1..k : LineAlone(j) # None})
\* a detection whose label is used and whose box a conversion rejects has no
\* line, and every other detection has the line it would have alone
RejectionIsLocal ==
    InEnforcement =>
        /\ Len(yolo_lines) = LinesUpTo(det_idx)
        /\ \A k \in 1..det_idx :
              /\ outcomes[k] \in {"rejected_pixels", "rejected_yolo"} => LineAlone(k) = None
              /\ LineAlone(k) # None => yolo_lines[LinesUpTo(k)] = LineAlone(k)
\* the first conversion rejects some box on some image of the machine
SomeBoxRejectedByFirst ==
    \E box \in EnfBoxes, img \in Images :
        paligemma_to_pixels(box, ImageTable[img].w, ImageTable[img].h) = None
\* the first conversion accepts some box that the second then rejects
SomeBoxRejectedBySecond ==
    \E box \in EnfBoxes \cup (NormValues \X NormValues \X NormValues \X NormValues),
       img \in Images :
        LET pixel_box == paligemma_to_pixels(box, ImageTable[img].w, ImageTable[img].h)
        IN  /\ pixel_box # None
            /\ yolo_coord_conversion(pixel_box, ImageTable[img].w, ImageTable[img].h) = None

\* C16 as claimed: paligemma_to_pixels rejects some boxes, yolo_coord_conversion
\* rejects some boxes that paligemma_to_pixels accepted, and a rejection at
\* either stage leaves no line and does not touch the other detections.
C16_EachStageRejects ==
    /\ SomeBoxRejectedByFirst
    /\ SomeBoxRejectedBySecond
    /\ RejectionIsLocal

\* C16 as amended: paligemma_to_pixels rejects some boxes; a box it accepts is
\* never rejected by yolo_coord_conversion for the same image size; a rejected
\* detection leaves no line and does not touch the other detections.
C16_OnlyFirstStageRejects ==
    /\ SomeBoxRejectedByFirst
    /\ InEnforcement => \A k \in 1..det_idx : outcomes[k] # "rejected_yolo"
    /\ RejectionIsLocal

\* helmet/a.jpg: the first detection's box is empty and is rejected, the second
\* has its line
C16_Witness ==
    /\ b_pc = "enforced"
    /\ Current[3] = "helmet"
    /\ Len(detections) = 2
    /\ detections[1].box = <<500, 200, 500, 900>>
    /\ outcomes = <<"rejected_pixels", "line">>
    /\ Len(yolo_lines) = 1 /\ yolo_lines[1] = LineAlone(2)

\* the composite path of the conversion machine: a pixel box that
\* paligemma_to_pixels returned is never rejected by yolo_coord_conversion
ComposedNeverRejects == FromVlmDone => c_pc # "rejected"

\* the pass that starts at an assignment whose target label file exists
C17_Pass ==
    (AtLoopTop /\ AlreadyLabelled(CurLbl)) =>
        /\ idx' = idx + 1
        /\ tally'.skipped = tally.skipped + 1
        /\ tally'.processed = tally.processed /\ tally'.errors = tally.errors
        /\ io'.detector_calls = io.detector_calls
        /\ io'.label_writes = io.label_writes /\ io'.unlinks = io.unlinks
        /\ out_labels' = out_labels
        /\ IF CurImg \notin DOMAIN out_images /\ Current[2] \in src_exists
           THEN \/ /\ last'.kind = "none"
                   /\ tally'.copied = tally.copied + 1
                   /\ out_images' = PutFile(out_images, CurImg,
                                            [src |-> Current[2], whole |-> TRUE])
                \/ /\ last'.kind \in {"copy", "copy_partial"}
                   /\ tally'.copied = tally.copied
                   /\ \A key \in DOMAIN out_images :
                         key \in DOMAIN out_images' /\ out_images'[key] = out_images[key]
           ELSE tally'.copied = tally.copied /\ out_images' = out_images

\* C17: an assignment whose target label file exists is counted as skipped
\* without a detector call, a label write or an unlink, and the label file
\* stays as it is; if its image copy is missing and the source exists the image
\* is copied and copied is one more, and when that copy fails the error tally
\* is still unchanged and copied is unchanged.
C17_IdempotentSkipRepairs == [][C17_Pass]_vars

\* the repair copy of an assignment has failed: skipped, no error, the old
\* label file in place, no image
C17_Witness ==
    /\ PassEnded /\ last.path = "skipped_idempotent" /\ last.kind = "copy"
    /\ tally.skipped = before.tally.skipped + 1
    /\ tally.errors = before.tally.errors /\ tally.copied = before.tally.copied
    /\ HandledLbl \in DOMAIN out_labels /\ out_labels[HandledLbl] = OldFile
    /\ HandledImg \notin DOMAIN out_images

\* the non-fatal conditions of the pass that has ended
SourceMissing == last.path = "skipped_missing_source"
DetectorFailure == last.path \in {"written", "write_failed"} /\ last.kind \in FailureKinds
ConversionRejected ==
    /\ last.path \in {"written", "write_failed"}
    /\ \E k \in DOMAIN detections :
          /\ LabelToUse(detections[k].label,
                        ExpectedLabel(single_class_dirs, Handled[3]),
                        AllowedLabels(required_pairs, single_class_dirs, Handled[3])) # NoLabel
          /\ ~BoxValid(detections[k])
WriteFailure == last.path = "write_failed"

\* C18: a pass in which the source was missing, the detector failed, a
\* detection's box was rejected or the write failed has written a message
\* naming the image to the log and has changed a counter of the tally.
C18_NonFatalLoggedAndCounted ==
    (PassEnded /\ (SourceMissing \/ DetectorFailure \/ ConversionRejected \/ WriteFailure)) =>
        /\ last.messages # {}
        /\ tally # before.tally

\* the pass that has ended ran the detector, which decoded its output, and no
\* label line was retained
C19_Case ==
    /\ PassEnded /\ last.path \in {"written", "write_failed"}
    /\ last.kind = "decoded"
    /\ yolo_lines = <<>>

\* C19: in that case no_target is one more and the no-target warning is
\* logged; in a pair's directory required_missing is one more as well and its
\* warning is logged too, elsewhere required_missing is unchanged; and unless
\* the write block fails, the label file (of no lines) and the image copy
\* exist and processed is one more.
C19_NoLinesBothWarnings ==
    C19_Case =>
        /\ tally.no_target_warnings = before.tally.no_target_warnings + 1
        /\ "no_target_warning" \in last.messages
        /\ IF Handled[3] \in DOMAIN required_pairs
           THEN /\ tally.required_missing_warnings =
                      before.tally.required_missing_warnings + 1
                /\ "required_missing_warning" \in last.messages
           ELSE tally.required_missing_warnings = before.tally.required_missing_warnings
        /\ last.path = "written" =>
              /\ HandledLbl \in DOMAIN out_labels
              /\ out_labels[HandledLbl] = [src |-> Handled[2], whole |-> TRUE]
              /\ HandledCopied
              /\ tally.processed = before.tally.processed + 1
              /\ tally.errors = before.tally.errors

\* an image of the pair (helmet, glove) whose one detection, labelled person,
\* is dropped: both warnings, the label file and the image copy
C19_Witness ==
    /\ C19_Case /\ last.path = "written"
    /\ Handled[3] \in DOMAIN required_pairs
    /\ required_pairs[Handled[3]] = <<"helmet", "glove">>
    /\ Len(detections) = 1 /\ detections[1].label = "person"
    /\ tally.no_target_warnings = before.tally.no_target_warnings + 1
    /\ tally.required_missing_warnings = before.tally.required_missing_warnings + 1
    /\ HandledLbl \in DOMAIN out_labels /\ HandledCopied

\* the pass that starts at an assignment with no target label file and no
\* source image
C20_Pass ==
    (AtLoopTop /\ ~AlreadyLabelled(CurLbl) /\ Current[2] \notin src_exists) =>
        /\ idx' = idx + 1
        /\ tally' = Bump(tally, "skipped")
        /\ io' = io
        /\ out_labels' = out_labels /\ out_images' = out_images

\* C20: an assignment with no target label file whose source image is gone is
\* counted as skipped and nothing else: no detector call, no file written or
\* removed, the other five counters unchanged.
C20_MissingSourceSkipsOnly == [][C20_Pass]_vars

\* such an assignment has been passed: skipped is one more, the tree is as it
\* was
C20_Witness ==
    /\ PassEnded /\ last.path = "skipped_missing_source"
    /\ Handled[2] \notin src_exists
    /\ tally = Bump(before.tally, "skipped")
    /\ HandledLbl \notin DOMAIN out_labels
    /\ DOMAIN out_labels = before.labels /\ DOMAIN out_images = before.images

\* C24: the pass that has ended raised exactly one of processed, skipped and
\* errors, by one; processed + skipped + errors is the number of assignments
\* taken so far, hence the length of the list when the call has returned; and
\* processed <= copied <= processed + skipped throughout.
C24_TallyAccounts ==
    /\ PassEnded =>
          \E field \in {"processed", "skipped", "errors"} :
              /\ tally[field] = before.tally[field] + 1
              /\ \A other \in {"processed", "skipped", "errors"} \ {field} :
                    tally[other] = before.tally[other]
    /\ b_pc \in {"loop", "returned"} => SumHandled(tally) = idx
    /\ b_pc = "returned" => SumHandled(tally) = Len(image_paths_with_split)
    /\ b_pc \in {"loop", "write", "returned"} =>
          /\ tally.processed <= tally.copied
          /\ tally.copied <= tally.processed + tally.skipped

\* a returned call of two assignments: one was skipped with its image
\* repaired, the other failed in the write block
C24_Witness ==
    /\ b_pc = "returned" /\ Len(image_paths_with_split) = 2
    /\ tally.skipped = 1 /\ tally.errors = 1 /\ tally.processed = 0
    /\ tally.copied = 1

\* C25: after every call of _initialize_model_and_processor, returned or
\* raised, _model and _processor are both unset or both loaded; a call made
\* when both were loaded returns at once, loads nothing and leaves the four
\* globals as they were; a call that raised leaves both unset, and a call made
\* when both were unset does not return early: it loads again unless the
\* hardware probe raises first.
C25_LoadedTogether ==
    i_pc = "imported" =>
      /\ (_model = "None") <=> (_processor = "None")
      /\ n_calls >= 1 =>
           /\ (last_call.before.model # "None" /\ last_call.before.processor # "None")
                 => /\ last_call.early /\ last_call.loads = 0
                    /\ Globals = last_call.before
                    /\ last_call.result \in {"returned", "proceeds"}
           /\ last_call.result \in {"raised", "empty_list"}
                 => _model = "None" /\ _processor = "None"
           /\ last_call.after_failure
                 => /\ ~last_call.early
                    /\ last_call.loads >= 1 \/ last_call.result \in {"raised", "empty_list"}
                    /\ last_call.result \in {"returned", "proceeds"}
                          => last_call.loads = 2 /\ _model # "None" /\ _processor # "None"

\* the processor's load failed in one call and the next call loaded both
C25_Witness ==
    /\ i_pc = "imported" /\ n_calls >= 2
    /\ last_call.after_failure /\ last_call.loads = 2
    /\ _model = "model" /\ _processor = "processor"

\* a later call found both loaded and did nothing
C25_WitnessLoaded ==
    /\ i_pc = "imported" /\ n_calls >= 2
    /\ last_call.before.model = "model" /\ last_call.early

\* C22: after a call that began on an empty output tree and returns with
\* errors = 0, every image under images/<split>/ has the label file
\* labels/<split>/<stem>.txt, complete and made from that same source image,
\* also when two assignments of the split share a stem.
C22_ImageHasOwnLabel ==
    (/\ b_pc = "returned" /\ tally.errors = 0
     /\ tree_at_call.labels = {} /\ tree_at_call.images = {}) =>
        \A key \in DOMAIN out_images :
            LET lbl == target_lbl_path(key[1], out_images[key].src)
            IN  /\ lbl \in DOMAIN out_labels
                /\ out_labels[lbl].src = out_images[key].src
                /\ out_labels[lbl].whole

\* the images that main's scan meets in the valid input directories
FoundImages ==
    UNION {{DirTable[input_dirs[k]].files[j] : j \in DOMAIN DirTable[input_dirs[k]].files}
              : k \in {i \in DOMAIN input_dirs : DirTable[input_dirs[i]].is_dir}}
          \cap {item \in Images \cup {"site/notes.txt"} : IsImage(item)}
AssignmentsOf(image) ==
    {k \in DOMAIN image_paths_with_split : image_paths_with_split[k][2] = image}
HandedToBatch == m_pc \in {"batch", "finished"}
SameBaseNameTwice ==
    \E i, j \in DOMAIN input_dirs :
        /\ i # j /\ DirTable[input_dirs[i]].is_dir /\ DirTable[input_dirs[j]].is_dir
        /\ DirTable[input_dirs[i]].name = DirTable[input_dirs[j]].name

\* C23: in the list main hands to process_image_batch every image found in a
\* valid input directory appears in exactly one assignment, also when two of
\* the input directories have the same base name.
C23_EveryImageAssignedOnce ==
    HandedToBatch =>
        \A image \in FoundImages : Cardinality(AssignmentsOf(image)) = 1

\* the same for runs whose valid input directories have distinct base names
C23_DistinctNamesAssignedOnce ==
    (HandedToBatch /\ ~SameBaseNameTwice) =>
        \A image \in FoundImages : Cardinality(AssignmentsOf(image)) = 1
C23_DistinctNamesCase ==
    HandedToBatch /\ ~SameBaseNameTwice /\ Cardinality(FoundImages) = 2

\* the splits that hold a label file made from the image, and those that
\* hold a copy of it
LabelSplitsOf(image) ==
    {key[1] : key \in {k \in DOMAIN out_labels : out_labels[k].src = image}}
ImageSplitsOf(image) ==
    {key[1] : key \in {k \in DOMAIN out_images : out_images[k].src = image}}

\* C21: through any sequence of complete runs of main on the same input
\* directories and the same output directory, each source image has label
\* files in at most one split and image copies in at most one split.
C21_OneSplitPerImage ==
    \A image \in RerunImages :
        /\ Cardinality(LabelSplitsOf(image)) <= 1
        /\ Cardinality(ImageSplitsOf(image)) <= 1

=============================================================================
